---- MODULE Spec2Model ----
(***************************************************************************)
(* Model of the dynamic-server-app template (src/core/app.ts, second       *)
(* revision, lines 276-651): an application instance, its reflective       *)
(* state snapshot, the probe-driven local/remote routing of get/set/call,  *)
(* the HTTP request handlers and the port allocation of startServer.       *)
(***************************************************************************)
EXTENDS Integers, FiniteSets, Sequences, TLC

\* ------------------------------------------------------------------ bounds
NumProcs == 2
Procs == 1..NumProcs
\* external events (commands, requests, signals) in one behaviour
MaxEvents == 3
\* largest maxAttempts of a direct findAvailablePort call
MaxTried == 2
\* requests a server holds unanswered at one time
MaxInflight == 2
\* clock ticks in the grace period of a shutdown
GraceTicks == 2

\* ------------------------------------------------------- program constants
DefaultMaxAttempts == 50
BasePort == 2000
GetterResult == 99

\* ------------------------------------------------------------------ values
\* A JavaScript value: its typeof tag and its payload (a number, or the pieces
\* of a string in concatenation order).
Num(n) == [t |-> "number", n |-> n, s |-> <<>>]
Str(s) == [t |-> "string", n |-> 0, s |-> <<s>>]
Bool(b) == [t |-> "boolean", n |-> IF b THEN 1 ELSE 0, s |-> <<>>]
Null == [t |-> "object", n |-> 0, s |-> <<"null">>]
Fn == [t |-> "function", n |-> 0, s |-> <<"fn">>]
Undefined == [t |-> "undefined", n |-> 0, s |-> <<>>]
\* an object that contains itself
Cyclic == [t |-> "cyclic", n |-> 0, s |-> <<>>]

EmptyObj == [k \in {} |-> Undefined]

\* an array of strings
Log(entries) == [t |-> "array", n |-> 0, s |-> entries]

\* String(v), `${v}`
ToStr(v) ==
  CASE v.t = "string" -> v.s
    [] v.t = "number" -> <<ToString(v.n)>>
    [] OTHER -> <<v.t>>

\* lodash isEqual on the scalar values of the model
isEqual(a, b) == a = b

\* obj[key] of a plain object: undefined for an absent key
Lookup(obj, key) == IF key \in DOMAIN obj THEN obj[key] ELSE Undefined

\* ------------------------------------------------------- the instance class
\* class GetterApp extends TestApp extends DynamicServerApp
\* own data fields set by the constructors
NewInstance ==
  [k \in {"port", "message", "isServerInstance", "systemMessage", "systemLog"} |->
     CASE k = "port" -> Num(BasePort)
       [] k = "message" -> Str("Hello, world!")
       [] k = "isServerInstance" -> Bool(FALSE)
       [] k = "systemMessage" -> Null
       [] k = "systemLog" -> Log(<<>>)]

\* prototype chain, most derived first: methods and getters per level;
\* failingMethod stands for a method of the subclass that throws an Error,
\* cyclicMethod for one that returns an object containing itself
ClassChain ==
  << [methods |-> {"greet", "defaultFunction", "failingMethod", "cyclicMethod"},
      getters |-> {"dynamicValue"}],
     [methods |-> {"sampleMethod", "greet"}, getters |-> {}],
     [methods |-> {"setSystemMessage", "getState", "applyStateUpdate",
                   "probe", "setState"}, getters |-> {}] >>

ObjectPrototypeKeys == {"constructor", "toString"}

ProtoKeys ==
  UNION {ClassChain[l].methods \cup ClassChain[l].getters : l \in DOMAIN ClassChain}
    \cup ObjectPrototypeKeys

GetterKeys == UNION {ClassChain[l].getters : l \in DOMAIN ClassChain}

\* `key in this`
KeyIn(obj, key) == key \in DOMAIN obj \/ key \in ProtoKeys

exclude ==
  {"schema", "logToUI", "notifyEnabled", "isServerInstance", "systemMessage",
   "systemLog"}

\* reading an accessor property of the instance
getterValue(obj, key) == Num(GetterResult)

\* a getState without the typeof test on own properties
getStateNoTypeof(obj) ==
  LET ownKeys == {k \in DOMAIN obj : k \notin exclude}
      accKeys == {k \in GetterKeys :
                    k # "constructor" /\ k \notin ownKeys /\ k \notin exclude}
  IN  [k \in ownKeys \cup accKeys |->
         IF k \in ownKeys THEN obj[k] ELSE getterValue(obj, k)]

getState(obj) ==
  LET ownKeys == {k \in DOMAIN obj : k \notin exclude /\ obj[k].t # "function"}
      accKeys == {k \in GetterKeys :
                    k # "constructor" /\ k \notin ownKeys /\ k \notin exclude}
  IN  [k \in ownKeys \cup accKeys |->
         IF k \in ownKeys THEN obj[k] ELSE getterValue(obj, k)]

\* the keys applyStateUpdate assigns: `(this as any)[key] = value`
assignedKeys(obj, data) == {k \in DOMAIN data : k \in DOMAIN obj \/ ~KeyIn(obj, k)}

\* an applyStateUpdate that writes every value as its string
applyStateUpdateCoerce(obj, data) ==
  LET written == {k \in DOMAIN data : k \in DOMAIN obj \/ ~KeyIn(obj, k)}
  IN  [k \in DOMAIN obj \cup written |->
         IF k \in written THEN [t |-> "string", n |-> 0, s |-> ToStr(data[k])]
         ELSE obj[k]]

\* an applyStateUpdate that only assigns the own properties of the instance
applyStateUpdateOwnOnly(obj, data) ==
  [k \in DOMAIN obj |-> IF k \in DOMAIN data THEN data[k] ELSE obj[k]]

\* an applyStateUpdate that assigns every key of the patch
applyStateUpdateAnyKey(obj, data) ==
  [k \in DOMAIN obj \cup DOMAIN data |->
     IF k \in DOMAIN data THEN data[k] ELSE obj[k]]

applyStateUpdate(obj, data) ==
  LET written == {k \in DOMAIN data : k \in DOMAIN obj \/ ~KeyIn(obj, k)}
  IN  [k \in DOMAIN obj \cup written |->
         IF k \in written THEN data[k] ELSE obj[k]]


\* ------------------------------------------------------------ wire format
JsonObject(o) == [k |-> "object", obj |-> o, arr |-> <<>>]
JsonArray(a) == [k |-> "array", obj |-> EmptyObj, arr |-> a]
EmptyBody == [k |-> "empty", obj |-> EmptyObj, arr |-> <<>>]
MalformedBody == [k |-> "malformed", obj |-> EmptyObj, arr |-> <<>>]

\* JSON.stringify of a plain object: members whose value is a function or
\* undefined are left out
JSONstringify(data) ==
  JsonObject([k \in {k \in DOMAIN data : data[k].t \notin {"function", "undefined"}}
                |-> data[k]])

\* JSON.stringify throws on an object that contains itself
JSONstringifyThrows(data) == \E k \in DOMAIN data : data[k].t = "cyclic"

\* JSON.parse throws on an empty or malformed text
JSONparseThrows(body) == body.k \in {"empty", "malformed"}

\* String(n) of an array index
IndexKey(n) ==
  CASE n = 0 -> "0" [] n = 1 -> "1" [] n = 2 -> "2" [] OTHER -> "3"

\* JSON text of a string, its characters in arr, and of null or a number
JsonString(chars) == [k |-> "string", obj |-> EmptyObj, arr |-> chars]
JsonScalar(v) == [k |-> "scalar", obj |-> EmptyObj, arr |-> <<v>>]

\* the parsed body as `for (const key in parsed)` and `parsed[key]` see it:
\* the members of an object, the elements of an array and the characters of
\* a string under their indices, nothing for null and for a number
ParsedObject(body) ==
  IF body.k = "object" THEN body.obj
  ELSE IF body.k \in {"array", "string"}
  THEN [key \in {IndexKey(n - 1) : n \in DOMAIN body.arr} |->
          body.arr[CHOOSE n \in DOMAIN body.arr : IndexKey(n - 1) = key]]
  ELSE EmptyObj

\* the enumerable keys of a parsed body (`for (const key in parsed)`)
ParsedKeys(body) == DOMAIN ParsedObject(body)

\* err.message of the SyntaxError JSON.parse throws
JSONparseMessage(body) ==
  IF body.k = "empty" THEN "Unexpected end of JSON input" ELSE "Unexpected token"

\* response bodies: res.end("...") without a Content-Type, JSON.stringify of
\* { error: message }, and the status member of { status: "ok", ... }
TextBody(text) == [k |-> "text", obj |-> EmptyObj, arr |-> <<Str(text)>>]
ErrorBody(message) == JsonObject("error" :> Str(message))
OkBody == JsonObject("status" :> Str("ok"))
\* JSON.stringify({ status: "ok", result })
ResultBody(value) == JSONstringify(("status" :> Str("ok")) @@ ("result" :> value))

\* ------------------------------------------------------------------ inputs
Patches ==
  { "message" :> Str("Hi"),
    "message" :> Str("Hello, world!"),
    ("message" :> Str("Hi")) @@ ("c" :> Num(4)),
    "port" :> Num(BasePort + 1),
    "dynamicValue" :> Num(5),
    "systemMessage" :> Str("x") }

\* arguments of a direct applyStateUpdate call: any object, functions included
LocalData == Patches \cup { "message" :> Fn, "handler" :> Fn }

Bodies == {JSONstringify(p) : p \in Patches} \cup {EmptyBody, MalformedBody}

\* the diffs handed to setState
Diffs == { "message" :> Str("Hi"), ("message" :> Str("Hi")) @@ ("c" :> Num(4)) }

\* the diffs of the set command, `{ [key]: value }` with the words of the
\* command line: a field, a created field, a method name, an internal name
SetDiffs ==
  { "message" :> Str("Hi"), "c" :> Str("4"), "greet" :> Str("x"),
    "systemMessage" :> Str("x") }

\* the patch of the setState calls whose probe is followed step by step
ProbeDiffs == { "message" :> Str("Hi") }

PreferredPorts == {BasePort, BasePort + 1}

\* ports held by other programs when the processes start
ForeignChoices == { {}, {BasePort + 1}, {BasePort, BasePort + 1} }

\* ------------------------------------------------------------------- state
VARIABLES
  inst,        \* own properties of the instance of each process
  pc,          \* control state of each process
  op,          \* the top-level operation a process is running
  isRunning,   \* result of the latest probe() of the process
  result,      \* outcome of the latest finished top-level operation
  listenPort,  \* port the http server of the process is bound to (0: none)
  transient,   \* port held by the transient socket of findAvailablePort (0: none)
  find,        \* locals of findAvailablePort and what its binds observed
  foreign,     \* ports bound by other programs
  trace,       \* last call that may have written the instance
  lastGet,     \* body of the last GET /state answered since that call
  events,      \* number of external events so far
  inflight,    \* requests the server has accepted and not yet answered
  drain,       \* shutdown of the process: clock ticks, requests finished
  app          \* the process of the App variant, its instance and its state file

vars ==
  << inst, pc, op, isRunning, result, listenPort, transient, find, foreign,
     trace, lastGet, events, inflight, drain, app >>

NoOp ==
  [kind |-> "none", key |-> "", diff |-> EmptyObj, args |-> <<>>,
   answered |-> FALSE, peerUp |-> FALSE, prev |-> "none"]
NoResult ==
  [kind |-> "none", route |-> "none", answered |-> FALSE, peerUp |-> FALSE,
   prev |-> "none", diff |-> EmptyObj, exit |-> 0, defined |-> FALSE,
   value |-> Undefined, state |-> EmptyObj, sent |-> <<>>, wroteSelf |-> FALSE,
   appliedAt |-> {}, key |-> "", args |-> <<>>]
\* find: start, max (maxAttempts), port, i as in findAvailablePort; failed: the
\* ports whose transient bind failed; heldBy: the servers Listening on start
\* since the call; direct: called on its own, not by startServer
NoFind ==
  [start |-> 0, max |-> 0, port |-> 0, i |-> 0, failed |-> {}, heldBy |-> {},
   direct |-> FALSE]
NoRequest == [method |-> "", path |-> "", port |-> Undefined, body |-> EmptyBody]
\* trace: kind of the call, the snapshots before (pre) and after (state) it, its
\* argument, the keys it assigned (writes), whether it left every own property
\* as it was (same); for a request also the request, the status and body of
\* the response, and the path and response status of the request the server
\* handled before it (prev)
NoTrace ==
  [kind |-> "none", status |-> 0, pre |-> EmptyObj, arg |-> EmptyObj,
   state |-> EmptyObj, writes |-> {}, same |-> TRUE, req |-> NoRequest,
   resp |-> EmptyBody, prev |-> [status |-> 0, path |-> ""]]
NoGet == [seen |-> FALSE, state |-> EmptyObj]
\* drain: the clock ticks since the signal that began the shutdown, and the
\* requests answered since it
NoDrain == [elapsed |-> 0, completed |-> 0]
\* app: the App variant (class App, run, serve). obj: own properties of the
\* instance; file: .app-state.json; listen: port of Bun.serve (0: none); run:
\* the command line of the process (flag: --port, 0 for none), the port found
\* in the file by load and the port handed to serve; last: the last request
\* answered; pending: the POST /state requests that applied their patch and
\* wait for `await app.save()` before they build their response; saves: the
\* texts of the Bun.write calls that have not completed
NoFile == [present |-> FALSE, data |-> EmptyObj]
NoRun == [serve |-> FALSE, flag |-> 0, loaded |-> Undefined, requested |-> Undefined]
NoLast ==
  [kind |-> "none", method |-> "", status |-> 0, pre |-> EmptyObj,
   same |-> TRUE, value |-> Undefined, state |-> EmptyObj, hasData |-> FALSE,
   arg |-> EmptyObj]
NoApp ==
  [pc |-> "off", obj |-> EmptyObj, file |-> NoFile, listen |-> 0, run |-> NoRun,
   last |-> NoLast, pending |-> {}, saves |-> {}]

Init ==
  /\ inst = [i \in Procs |-> NewInstance]
  /\ pc = [i \in Procs |-> "idle"]
  /\ op = [i \in Procs |-> NoOp]
  /\ isRunning = [i \in Procs |-> FALSE]
  /\ result = [i \in Procs |-> NoResult]
  /\ listenPort = [i \in Procs |-> 0]
  /\ transient = [i \in Procs |-> 0]
  /\ find = [i \in Procs |-> NoFind]
  /\ foreign \in ForeignChoices
  /\ trace = [i \in Procs |-> NoTrace]
  /\ lastGet = [i \in Procs |-> NoGet]
  /\ events = 0
  /\ inflight = [i \in Procs |-> 0]
  /\ drain = [i \in Procs |-> NoDrain]
  /\ app = NoApp

\* ------------------------------------------------------------------ network
\* ports some socket is bound to
BoundPorts ==
  foreign \cup {listenPort[i] : i \in {j \in Procs : listenPort[j] # 0}}
          \cup {transient[i] : i \in {j \in Procs : transient[j] # 0}}
          \cup ({app.listen} \ {0})

\* the Listening servers that accept connections at the address a value names
PeersAt(v) ==
  {j \in Procs : pc[j] = "serving" /\ v.t = "number" /\ listenPort[j] = v.n}


\* ------------------------------------------------------------- operations
Arg(args, n) == IF n <= Len(args) THEN args[n] ELSE Undefined

\* the entries systemLog keeps
LogCap == 100

\* a setSystemMessage that keeps every entry
setSystemMessageNoShift(obj, msg) ==
  [k \in DOMAIN obj \cup {"systemMessage", "systemLog"} |->
     CASE k = "systemMessage" -> msg
       [] k = "systemLog" -> Log(Lookup(obj, "systemLog").s \o ToStr(msg))
       [] OTHER -> obj[k]]

\* setSystemMessage(msg): systemMessage, push, shift beyond the cap
setSystemMessage(obj, msg) ==
  LET pushed == Lookup(obj, "systemLog").s \o ToStr(msg)
      kept == IF Len(pushed) > LogCap THEN Tail(pushed) ELSE pushed
  IN  [k \in DOMAIN obj \cup {"systemMessage", "systemLog"} |->
         CASE k = "systemMessage" -> msg
           [] k = "systemLog" -> Log(kept)
           [] OTHER -> obj[k]]

\* instance[name](...args): whether it throws, what it returns, what it writes
invoke(obj, name, args) ==
  \* an own property of that name comes before the prototype chain
  IF name \in DOMAIN obj
  THEN IF obj[name].t = "function"
       THEN [threw |-> FALSE, obj |-> obj, value |-> Undefined, message |-> ""]
       ELSE [threw |-> TRUE, obj |-> obj, value |-> Undefined,
             message |-> "is not a function"]
  ELSE
    CASE name = "greet" ->
           [threw |-> FALSE, obj |-> obj, message |-> "",
            value |-> [t |-> "string", n |-> 0,
                       s |-> <<"Hello, ">> \o ToStr(Arg(args, 1)) \o <<"! Message: ">>
                               \o ToStr(Lookup(obj, "message"))]]
      [] name = "defaultFunction" ->
           [threw |-> FALSE, obj |-> obj, message |-> "",
            value |-> [t |-> "string", n |-> 0, s |-> ToStr(Lookup(obj, "message"))]]
      [] name = "sampleMethod" ->
           [threw |-> FALSE, obj |-> obj, message |-> "",
            value |-> Str("method called")]
      [] name = "setSystemMessage" ->
           [threw |-> FALSE, value |-> Undefined, message |-> "",
            obj |-> setSystemMessage(obj, Arg(args, 1))]
      [] name = "failingMethod" ->
           [threw |-> TRUE, obj |-> obj, value |-> Undefined, message |-> "failed"]
      [] name = "cyclicMethod" ->
           [threw |-> FALSE, obj |-> obj, value |-> Cyclic, message |-> ""]
      [] OTHER ->
           [threw |-> TRUE, obj |-> obj, value |-> Undefined,
            message |-> "is not a function"]

\* the own properties an operation left with another value
changedKeys(before, after) ==
  {k \in DOMAIN after : Lookup(before, k) # after[k]}

\* the routes of the server: the function-valued own names of the prototype
buildRoutes == {k \in ClassChain[1].methods : k # "constructor"}

\* ---------------------------------------------------------------- handlers
handleGetState(obj) ==
  [status |-> 200, obj |-> obj, state |-> getState(obj), writes |-> {},
   body |-> JsonObject(getState(obj))]

\* a POST /state handler whose diff keeps the equal keys instead of the changed
handlePostStateEqualKeys(obj, body) ==
  IF JSONparseThrows(body)
  THEN [status |-> 400, obj |-> obj, state |-> EmptyObj, writes |-> {},
        body |-> ErrorBody(JSONparseMessage(body))]
  ELSE LET current == getState(obj)
           patch == [k \in {k \in ParsedKeys(body) :
                              isEqual(ParsedObject(body)[k], Lookup(current, k))}
                       |-> ParsedObject(body)[k]]
           after == IF DOMAIN patch # {} THEN applyStateUpdate(obj, patch) ELSE obj
       IN  [status |-> 200, obj |-> after, state |-> getState(after),
            writes |-> assignedKeys(obj, patch), body |-> OkBody]

\* a POST /state handler without the diff: every parsed key is passed on
handlePostStateAllKeys(obj, body) ==
  IF JSONparseThrows(body)
  THEN [status |-> 400, obj |-> obj, state |-> EmptyObj, writes |-> {},
        body |-> ErrorBody(JSONparseMessage(body))]
  ELSE LET patch == [k \in ParsedKeys(body) |-> ParsedObject(body)[k]]
           after == IF DOMAIN patch # {} THEN applyStateUpdate(obj, patch) ELSE obj
       IN  [status |-> 200, obj |-> after, state |-> getState(after),
            writes |-> assignedKeys(obj, patch), body |-> OkBody]

\* a POST /state handler that takes an unparseable body for an empty patch
handlePostStateLenient(obj, body) ==
  LET current == getState(obj)
      patch == [k \in {k \in ParsedKeys(body) :
                         ~isEqual(ParsedObject(body)[k], Lookup(current, k))}
                  |-> ParsedObject(body)[k]]
      after == IF DOMAIN patch # {} THEN applyStateUpdate(obj, patch) ELSE obj
  IN  [status |-> 200, obj |-> after, state |-> getState(after),
       writes |-> assignedKeys(obj, patch), body |-> OkBody]

handlePostState(obj, body) ==
  IF JSONparseThrows(body)
  THEN [status |-> 400, obj |-> obj, state |-> EmptyObj, writes |-> {},
        body |-> ErrorBody(JSONparseMessage(body))]
  ELSE LET current == getState(obj)
           patch == [k \in {k \in ParsedKeys(body) :
                              ~isEqual(ParsedObject(body)[k], Lookup(current, k))}
                       |-> ParsedObject(body)[k]]
           after == IF DOMAIN patch # {} THEN applyStateUpdate(obj, patch) ELSE obj
       IN  [status |-> 200, obj |-> after, state |-> getState(after),
            writes |-> assignedKeys(obj, patch), body |-> OkBody]

\* every method of the class chain
ChainMethods == UNION {ClassChain[l].methods : l \in DOMAIN ClassChain}

\* a dispatch to any function-valued member of the instance
handleCallAnyMethod(obj, name, body) ==
  IF name \notin ChainMethods
  THEN [status |-> 404, obj |-> obj, value |-> Undefined, writes |-> {},
        body |-> TextBody("Not Found")]
  ELSE LET r == invoke(obj, name, IF body.k = "array" THEN body.arr ELSE <<>>)
       IN  [status |-> IF r.threw THEN 500 ELSE 200, obj |-> r.obj,
            value |-> r.value, writes |-> changedKeys(obj, r.obj),
            body |-> IF r.threw THEN ErrorBody(r.message) ELSE OkBody]

\* an operation handler without the catch: a throw escapes and no response
\* is sent (status 0)
handleCallNoCatch(obj, name, body) ==
  IF name \notin buildRoutes
  THEN [status |-> 404, obj |-> obj, value |-> Undefined, writes |-> {},
        body |-> TextBody("Not Found")]
  ELSE LET r == invoke(obj, name, IF body.k = "array" THEN body.arr ELSE <<>>)
       IN  [status |-> IF r.threw \/ JSONparseThrows(body) THEN 0 ELSE 200,
            obj |-> r.obj, value |-> r.value, writes |-> changedKeys(obj, r.obj),
            body |-> IF r.threw \/ JSONparseThrows(body) THEN EmptyBody ELSE OkBody]

\* heads: the writeHead calls made for the response, where more than one is
\* made: JSON.stringify of the result is evaluated after writeHead(200), and
\* when it throws the catch block calls writeHead(500)
handleCall(obj, name, body) ==
  IF name \notin buildRoutes
  THEN [status |-> 404, obj |-> obj, value |-> Undefined, writes |-> {},
        body |-> TextBody("Not Found")]
  ELSE IF JSONparseThrows(body)
  THEN [status |-> 500, obj |-> obj, value |-> Undefined, writes |-> {},
        body |-> ErrorBody(JSONparseMessage(body))]
  ELSE LET r == invoke(obj, name, IF body.k = "array" THEN body.arr ELSE <<>>)
       IN  IF r.threw
           THEN [status |-> 500, obj |-> r.obj, value |-> Undefined,
                 writes |-> changedKeys(obj, r.obj), body |-> ErrorBody(r.message)]
           ELSE IF JSONstringifyThrows("result" :> r.value)
           THEN [status |-> 500, obj |-> r.obj, value |-> Undefined,
                 writes |-> changedKeys(obj, r.obj),
                 body |-> ErrorBody("cyclic structure"), heads |-> 2]
           ELSE [status |-> 200, obj |-> r.obj, value |-> r.value,
                 writes |-> changedKeys(obj, r.obj), body |-> ResultBody(r.value)]

\* the request handler of the server: /state by verb, POST /<route>, else 404
handleRequest(obj, method, path, body) ==
  IF path = "state"
  THEN IF method = "GET" THEN handleGetState(obj)
       ELSE IF method = "POST" THEN handlePostState(obj, body)
       ELSE [status |-> 405, obj |-> obj, writes |-> {},
             body |-> TextBody("Method Not Allowed")]
  ELSE IF method = "POST" THEN handleCall(obj, path, body)
  ELSE [status |-> 404, obj |-> obj, writes |-> {}, body |-> TextBody("Not Found")]

\* what a request handled by the server of process s leaves in the ghosts
Traced(s, kind, req, h, pre, arg) ==
  [trace EXCEPT ![s] = [kind |-> kind, status |-> h.status, pre |-> pre,
                          arg |-> arg, state |-> getState(h.obj),
                          writes |-> h.writes, same |-> (h.obj = inst[s]),
                          req |-> req, resp |-> h.body,
                          prev |-> [status |-> trace[s].status,
                                    path |-> trace[s].req.path]]]


\* ------------------------------------------------------------------- probe
\* a probe that reuses the result of the previous setState of the process
probeCached(i, timely) ==
  IF result[i].kind = "set" THEN isRunning[i]
  ELSE PeersAt(inst[i]["port"]) # {} /\ timely

\* probe(): true only when the peer at the instance's port answered GET /state
\* before the abort timer fired
probe(i, timely) == PeersAt(inst[i]["port"]) # {} /\ timely

\* a new process in the slot of an exited one: a newly constructed instance
Fresh(i) ==
  /\ inst' = [inst EXCEPT ![i] = NewInstance]
  /\ isRunning' = [isRunning EXCEPT ![i] = FALSE]
  /\ trace' = [trace EXCEPT ![i] = NoTrace]
  /\ lastGet' = [lastGet EXCEPT ![i] = NoGet]

\* every top-level operation starts with its own probe
Begin(i, kind, key, diff, args, timely) ==
  /\ pc[i] = "idle"
  /\ events < MaxEvents
  /\ events' = events + 1
  /\ isRunning' = [isRunning EXCEPT ![i] = probe(i, timely)]
  /\ op' = [op EXCEPT ![i] =
              [kind |-> kind, key |-> key, diff |-> diff, args |-> args,
               answered |-> (PeersAt(inst[i]["port"]) # {} /\ timely),
               peerUp |-> PeersAt(inst[i]["port"]) # {},
               prev |-> IF result[i].kind = "set" THEN result[i].route ELSE "none"]]
  /\ pc' = [pc EXCEPT ![i] = "route"]
  /\ result' = [result EXCEPT ![i] = NoResult]
  /\ UNCHANGED <<inst, listenPort, transient, find, foreign, trace, lastGet>>
  /\ UNCHANGED <<inflight, drain, app>>

\* the outcome of the operation of process i, with what was observed of it:
\* answered (the peer answered its probe in time), peerUp (a peer was Listening
\* from its start to its end), prev (route of the setState before it in the
\* same process), appliedAt (the servers that handled its request)
Finished(i, route, exit, defined, value, state, sent, wrote, at) ==
  [result EXCEPT ![i] =
     [kind |-> op[i].kind, route |-> route, answered |-> op[i].answered,
      peerUp |-> (op[i].peerUp /\ PeersAt(inst[i]["port"]) # {}),
      prev |-> op[i].prev, diff |-> op[i].diff,
      exit |-> exit, defined |-> defined, value |-> value, state |-> state,
      sent |-> sent, wroteSelf |-> wrote, appliedAt |-> at,
      key |-> op[i].key, args |-> op[i].args]]

\* a request to http://localhost:<port>/<path>
Request(i, method, path, body) ==
  [method |-> method, path |-> path, port |-> inst[i]["port"], body |-> body]

\* ── get ── (runDynamicApp, command get): ends the process
GetBegin(i, key, timely) == Begin(i, "get", key, EmptyObj, <<>>, timely)

GetFinish(i) ==
  /\ pc[i] = "route" /\ op[i].kind = "get"
  /\ IF isRunning[i]
     THEN \/ \E s \in PeersAt(inst[i]["port"]) :
               /\ result' = Finished(i, "remote", 0,
                     Lookup(handleGetState(inst[s]).state, op[i].key) # Undefined,
                     Lookup(handleGetState(inst[s]).state, op[i].key), EmptyObj,
                     <<Request(i, "GET", "state", EmptyBody)>>, FALSE, {s})
               /\ lastGet' = [lastGet EXCEPT ![s] =
                               [seen |-> TRUE, state |-> handleGetState(inst[s]).state]]
               /\ inst' = [inst EXCEPT ![i] = NewInstance]
          \/ /\ PeersAt(inst[i]["port"]) = {}
             /\ result' = Finished(i, "remote", 1, FALSE, Undefined, EmptyObj,
                     <<Request(i, "GET", "state", EmptyBody)>>, FALSE, {})
             /\ inst' = [inst EXCEPT ![i] = NewInstance]
             /\ lastGet' = lastGet
     ELSE /\ result' = Finished(i, "local", 0,
                     Lookup(getState(inst[i]), op[i].key) # Undefined,
                     Lookup(getState(inst[i]), op[i].key), EmptyObj, <<>>, FALSE, {})
          /\ inst' = [inst EXCEPT ![i] = NewInstance]
          /\ lastGet' = lastGet
  /\ isRunning' = [isRunning EXCEPT ![i] = FALSE]
  /\ trace' = [trace EXCEPT ![i] = NoTrace]
  /\ pc' = [pc EXCEPT ![i] = "idle"]
  /\ op' = [op EXCEPT ![i] = NoOp]
  /\ UNCHANGED <<listenPort, transient, find, foreign, events>>
  /\ UNCHANGED <<inflight, drain, app>>


\* ── setState ── (DynamicServerApp.setState): returns to its caller
SetStateBegin(i, diff, timely) == Begin(i, "set", "", diff, <<>>, timely)

setStateLocal(i) ==
  LET after == applyStateUpdate(inst[i], op[i].diff) IN
  /\ inst' = [inst EXCEPT ![i] = after]
  /\ result' = Finished(i, "local", 0, TRUE, Undefined, getState(after),
                        <<>>, after # inst[i], {})
  /\ trace' = [trace EXCEPT ![i] =
                 [NoTrace EXCEPT
                    !.kind = "setState", !.pre = getState(inst[i]),
                    !.arg = op[i].diff, !.state = getState(after),
                    !.writes = assignedKeys(inst[i], op[i].diff),
                    !.same = (after = inst[i])]]
  /\ lastGet' = [lastGet EXCEPT ![i] = NoGet]

\* a remote path that applies the patch to the caller when the POST fails
setStateRemoteFallback(i) ==
  LET body == JSONstringify(op[i].diff)
      req == Request(i, "POST", "state", body)
      after == applyStateUpdate(inst[i], op[i].diff) IN
  \/ \E s \in PeersAt(inst[i]["port"]) :
       LET h == handlePostState(inst[s], body) IN
       /\ inst' = [inst EXCEPT ![s] = h.obj]
       /\ result' = Finished(i, "remote", 0, h.status = 200, Undefined,
                             h.state, <<req>>, inst'[i] # inst[i], {s})
       /\ trace' = Traced(s, "POST /state", req, h, getState(inst[s]), ParsedObject(body))
       /\ lastGet' = [lastGet EXCEPT ![s] = NoGet]
  \/ /\ PeersAt(inst[i]["port"]) = {}
     /\ inst' = [inst EXCEPT ![i] = after]
     /\ UNCHANGED <<trace, lastGet>>
     /\ result' = Finished(i, "remote", 0, TRUE, Undefined, getState(after),
                           <<req>>, inst'[i] # inst[i], {})

\* a remote path that returns the patch it sent instead of response.state
setStateRemoteEcho(i) ==
  LET body == JSONstringify(op[i].diff)
      req == Request(i, "POST", "state", body) IN
  \/ \E s \in PeersAt(inst[i]["port"]) :
       LET h == handlePostState(inst[s], body) IN
       /\ inst' = [inst EXCEPT ![s] = h.obj]
       /\ result' = Finished(i, "remote", 0, h.status = 200, Undefined,
                             op[i].diff, <<req>>, inst'[i] # inst[i], {s})
       /\ trace' = Traced(s, "POST /state", req, h, getState(inst[s]), ParsedObject(body))
       /\ lastGet' = [lastGet EXCEPT ![s] = NoGet]
  \/ /\ PeersAt(inst[i]["port"]) = {}
     /\ UNCHANGED <<inst, trace, lastGet>>
     /\ result' = Finished(i, "remote", 0, FALSE, Undefined, EmptyObj,
                           <<req>>, inst'[i] # inst[i], {})

\* the state returned is the `state` member of the response after
\* JSON.stringify on the server and res.json() on the caller
setStateRemote(i) ==
  LET body == JSONstringify(op[i].diff)
      req == Request(i, "POST", "state", body) IN
  \/ \E s \in PeersAt(inst[i]["port"]) :
       LET h == handlePostState(inst[s], body) IN
       /\ inst' = [inst EXCEPT ![s] = h.obj]
       /\ result' = Finished(i, "remote", 0, h.status = 200, Undefined,
                             JSONstringify(h.state).obj, <<req>>,
                             inst'[i] # inst[i], {s})
       /\ trace' = Traced(s, "POST /state", req, h, getState(inst[s]), ParsedObject(body))
       /\ lastGet' = [lastGet EXCEPT ![s] = NoGet]
  \/ /\ PeersAt(inst[i]["port"]) = {}
     /\ UNCHANGED <<inst, trace, lastGet>>
     /\ result' = Finished(i, "remote", 0, FALSE, Undefined, EmptyObj,
                           <<req>>, inst'[i] # inst[i], {})

\* a setState that writes the local instance whatever the probe said
SetStateFinishLocalOnly(i) ==
  /\ pc[i] = "route" /\ op[i].kind = "set"
  /\ setStateLocal(i)
  /\ pc' = [pc EXCEPT ![i] = "idle"]
  /\ op' = [op EXCEPT ![i] = NoOp]
  /\ UNCHANGED <<isRunning, listenPort, transient, find, foreign, events>>
  /\ UNCHANGED <<inflight, drain, app>>

SetStateFinish(i) ==
  /\ pc[i] = "route" /\ op[i].kind = "set"
  /\ IF ~isRunning[i] THEN setStateLocal(i) ELSE setStateRemote(i)
  /\ pc' = [pc EXCEPT ![i] = "idle"]
  /\ op' = [op EXCEPT ![i] = NoOp]
  /\ UNCHANGED <<isRunning, listenPort, transient, find, foreign, events>>
  /\ UNCHANGED <<inflight, drain, app>>

\* ── call ── (runDynamicApp, command call): ends the process
\* words.join(" ")
RECURSIVE JoinWords(_)
JoinWords(words) ==
  IF Len(words) = 0 THEN <<>>
  ELSE IF Len(words) = 1 THEN words[1].s
  ELSE words[1].s \o <<" ">> \o JoinWords(Tail(words))

\* the argument list of the command: one string, the words after the name of
\* the function joined by spaces
cliArgs(words) == << [t |-> "string", n |-> 0, s |-> JoinWords(words)] >>

\* args: the words that follow the name of the function on the command line
CallBegin(i, name, args, timely) == Begin(i, "call", name, EmptyObj, args, timely)

CallFinish(i) ==
  /\ pc[i] = "route" /\ op[i].kind = "call"
  /\ IF isRunning[i]
     THEN LET body == JsonArray(cliArgs(op[i].args))
              req == Request(i, "POST", op[i].key, body) IN
          \/ \E s \in PeersAt(inst[i]["port"]) :
               LET h == handleCall(inst[s], op[i].key, body) IN
               /\ inst' = [inst EXCEPT ![s] = h.obj, ![i] = NewInstance]
               /\ result' = Finished(i, "remote", IF h.status = 404 THEN 1 ELSE 0,
                                     h.status = 200 /\ h.value # Undefined,
                                     h.value, EmptyObj, <<req>>, FALSE, {s})
               /\ trace' = [Traced(s, "POST /call", req, h, getState(inst[s]), EmptyObj)
                              EXCEPT ![i] = NoTrace]
               /\ lastGet' = [lastGet EXCEPT ![s] = NoGet]
          \/ /\ PeersAt(inst[i]["port"]) = {}
             /\ result' = Finished(i, "remote", 1, FALSE, Undefined, EmptyObj,
                                   <<req>>, FALSE, {})
             /\ inst' = [inst EXCEPT ![i] = NewInstance]
             /\ trace' = [trace EXCEPT ![i] = NoTrace]
             /\ lastGet' = lastGet
     ELSE LET r == invoke(inst[i], op[i].key, cliArgs(op[i].args)) IN
          /\ result' = Finished(i, "local", IF r.threw THEN 1 ELSE 0,
                                ~r.threw /\ r.value # Undefined, r.value, EmptyObj,
                                <<>>, r.obj # inst[i], {})
          /\ inst' = [inst EXCEPT ![i] = NewInstance]
          /\ trace' = [trace EXCEPT ![i] = NoTrace]
          /\ lastGet' = lastGet
  /\ isRunning' = [isRunning EXCEPT ![i] = FALSE]
  /\ pc' = [pc EXCEPT ![i] = "idle"]
  /\ op' = [op EXCEPT ![i] = NoOp]
  /\ UNCHANGED <<listenPort, transient, find, foreign, events>>
  /\ UNCHANGED <<inflight, drain, app>>

\* ── direct use of the instance ──
ApplyStateUpdate(i, data) ==
  /\ pc[i] = "idle"
  /\ events < MaxEvents
  /\ events' = events + 1
  /\ inst' = [inst EXCEPT ![i] = applyStateUpdate(inst[i], data)]
  /\ trace' = [trace EXCEPT ![i] =
                 [NoTrace EXCEPT
                    !.kind = "applyStateUpdate", !.pre = getState(inst[i]),
                    !.arg = data, !.state = getState(inst'[i]),
                    !.writes = assignedKeys(inst[i], data),
                    !.same = (inst'[i] = inst[i])]]
  /\ lastGet' = [lastGet EXCEPT ![i] = NoGet]
  /\ result' = [result EXCEPT ![i] = NoResult]
  /\ UNCHANGED <<pc, op, isRunning, listenPort, transient, find, foreign>>
  /\ UNCHANGED <<inflight, drain, app>>

\* applyStateUpdate(getState())
ApplySnapshot(i) == ApplyStateUpdate(i, getState(inst[i]))


\* ── serve ── (runDynamicApp with --serve, then startServer)
\* pref = 0 stands for a command line without --port
Serve(i, pref) ==
  /\ pc[i] = "idle"
  /\ events < MaxEvents
  /\ inst[i]["port"].t = "number"
  /\ events' = events + 1
  /\ LET start == IF pref # 0 THEN pref ELSE inst[i]["port"].n IN
     /\ inst' = [inst EXCEPT ![i] =
                   [k \in DOMAIN inst[i] \cup {"notifyEnabled"} |->
                      CASE k = "port" -> Num(start)
                        [] k = "notifyEnabled" -> Bool(FALSE)
                        [] OTHER -> inst[i][k]]]
     /\ find' = [find EXCEPT ![i] =
                   [start |-> start, max |-> DefaultMaxAttempts, port |-> start,
                    i |-> 0, failed |-> {}, heldBy |-> PeersAt(Num(start)),
                    direct |-> FALSE]]
  /\ pc' = [pc EXCEPT ![i] = "find"]
  /\ trace' = [trace EXCEPT ![i] = NoTrace]
  /\ lastGet' = [lastGet EXCEPT ![i] = NoGet]
  /\ result' = [result EXCEPT ![i] = NoResult]
  /\ UNCHANGED <<op, isRunning, listenPort, transient, foreign>>
  /\ UNCHANGED <<inflight, drain, app>>

\* a findAvailablePort that does not advance the port after a failed bind
FindTrySamePort(i) ==
  /\ pc[i] = "find"
  /\ IF find[i].i >= find[i].max
     THEN /\ pc' = [pc EXCEPT ![i] = "noPort"]
          /\ UNCHANGED <<find, transient>>
     ELSE IF find[i].port \in BoundPorts
     THEN /\ find' = [find EXCEPT ![i].failed = @ \cup {find[i].port},
                                  ![i].i = @ + 1]
          /\ pc' = [pc EXCEPT ![i] =
                      IF find[i].i + 1 >= find[i].max THEN "noPort" ELSE "find"]
          /\ UNCHANGED transient
     ELSE /\ transient' = [transient EXCEPT ![i] = find[i].port]
          /\ pc' = [pc EXCEPT ![i] = "release"]
          /\ UNCHANGED find
  /\ UNCHANGED <<inst, op, isRunning, result, listenPort, foreign, trace,
                 lastGet, events>>
  /\ UNCHANGED <<inflight, drain, app>>

\* one iteration of findAvailablePort up to its await: the transient bind
\* fails (next candidate, or the throw after the last one) or succeeds
FindTry(i) ==
  /\ pc[i] = "find"
  /\ IF find[i].i >= find[i].max
     THEN /\ pc' = [pc EXCEPT ![i] = "noPort"]
          /\ UNCHANGED <<find, transient>>
     ELSE IF find[i].port \in BoundPorts
     THEN /\ find' = [find EXCEPT ![i].failed = @ \cup {find[i].port},
                                  ![i].port = @ + 1, ![i].i = @ + 1]
          /\ pc' = [pc EXCEPT ![i] =
                      IF find[i].i + 1 >= find[i].max THEN "noPort" ELSE "find"]
          /\ UNCHANGED transient
     ELSE /\ transient' = [transient EXCEPT ![i] = find[i].port]
          /\ pc' = [pc EXCEPT ![i] = "release"]
          /\ UNCHANGED find
  /\ UNCHANGED <<inst, op, isRunning, result, listenPort, foreign, trace,
                 lastGet, events>>
  /\ UNCHANGED <<inflight, drain, app>>

\* the transient socket is closed and findAvailablePort returns its port
FindRelease(i) ==
  /\ pc[i] = "release"
  /\ transient' = [transient EXCEPT ![i] = 0]
  /\ pc' = [pc EXCEPT ![i] = IF find[i].direct THEN "found" ELSE "listen"]
  /\ UNCHANGED <<inst, op, isRunning, result, listenPort, find, foreign, trace,
                 lastGet, events>>
  /\ UNCHANGED <<inflight, drain, app>>

\* findAvailablePort(start, maxAttempts) called on its own
FindCall(i, start, maxAttempts) ==
  /\ pc[i] = "idle"
  /\ events < MaxEvents
  /\ events' = events + 1
  /\ find' = [find EXCEPT ![i] =
                [start |-> start, max |-> maxAttempts, port |-> start, i |-> 0,
                 failed |-> {}, heldBy |-> PeersAt(Num(start)), direct |-> TRUE]]
  /\ pc' = [pc EXCEPT ![i] = "find"]
  /\ UNCHANGED <<inst, op, isRunning, result, listenPort, transient, foreign,
                 trace, lastGet>>
  /\ UNCHANGED <<inflight, drain, app>>

\* its caller goes on after the return or the throw
FindDone(i) ==
  /\ pc[i] \in {"found", "noPort"}
  /\ find[i].direct
  /\ find' = [find EXCEPT ![i] = NoFind]
  /\ pc' = [pc EXCEPT ![i] = "idle"]
  /\ UNCHANGED <<inst, op, isRunning, result, listenPort, transient, foreign,
                 trace, lastGet, events>>
  /\ UNCHANGED <<inflight, drain, app>>

\* a startServer that leaves app.port at the preferred port
ListenKeepPort(i) ==
  /\ pc[i] = "listen"
  /\ inst' = [inst EXCEPT ![i]["isServerInstance"] = Bool(TRUE)]
  /\ IF find[i].port \in BoundPorts
     THEN /\ pc' = [pc EXCEPT ![i] = "crashed"]
          /\ UNCHANGED listenPort
     ELSE /\ pc' = [pc EXCEPT ![i] = "serving"]
          /\ listenPort' = [listenPort EXCEPT ![i] = find[i].port]
  /\ trace' = [trace EXCEPT ![i] =
                 [NoTrace EXCEPT
                    !.kind = "start", !.pre = getState(inst[i]),
                    !.state = getState(inst'[i]), !.writes = {"port"},
                    !.same = (inst'[i] = inst[i])]]
  /\ UNCHANGED <<op, isRunning, result, transient, find, foreign, lastGet, events>>
  /\ UNCHANGED <<inflight, drain, app>>

\* startServer after the await: app.port, isServerInstance, server.listen(port);
\* a failed bind is an 'error' event nobody listens to, which ends the process
Listen(i) ==
  /\ pc[i] = "listen"
  /\ inst' = [inst EXCEPT ![i]["port"] = Num(find[i].port),
                          ![i]["isServerInstance"] = Bool(TRUE)]
  /\ IF find[i].port \in BoundPorts
     THEN /\ pc' = [pc EXCEPT ![i] = "crashed"]
          /\ UNCHANGED listenPort
     ELSE /\ pc' = [pc EXCEPT ![i] = "serving"]
          /\ listenPort' = [listenPort EXCEPT ![i] = find[i].port]
  /\ trace' = [trace EXCEPT ![i] =
                 [NoTrace EXCEPT
                    !.kind = "start", !.pre = getState(inst[i]),
                    !.state = getState(inst'[i]), !.writes = {"port"},
                    !.same = (inst'[i] = inst[i])]]
  /\ UNCHANGED <<op, isRunning, result, transient, find, foreign, lastGet, events>>
  /\ UNCHANGED <<inflight, drain, app>>

\* the serving process is terminated
Kill(i) ==
  /\ pc[i] = "serving"
  /\ events < MaxEvents
  /\ events' = events + 1
  /\ listenPort' = [listenPort EXCEPT ![i] = 0]
  /\ pc' = [pc EXCEPT ![i] = "idle"]
  /\ find' = [j \in Procs |->
                IF j = i THEN NoFind ELSE [find[j] EXCEPT !.heldBy = @ \ {i}]]
  /\ op' = [j \in Procs |->
              IF pc[j] = "route" /\ inst[j]["port"] = Num(listenPort[i])
              THEN [op[j] EXCEPT !.peerUp = FALSE] ELSE op[j]]
  /\ Fresh(i)
  /\ UNCHANGED <<result, transient, foreign>>
  /\ inflight' = [inflight EXCEPT ![i] = 0]
  /\ drain' = [drain EXCEPT ![i] = NoDrain]
  /\ UNCHANGED app

\* ── requests of any HTTP client to a Listening server ──
HttpGetState(s) ==
  /\ pc[s] = "serving"
  /\ events < MaxEvents
  /\ events' = events + 1
  /\ lastGet' = [lastGet EXCEPT ![s] =
                   [seen |-> TRUE, state |-> handleGetState(inst[s]).state]]
  /\ UNCHANGED <<inst, pc, op, isRunning, result, listenPort, transient, find,
                 foreign, trace>>
  /\ UNCHANGED <<inflight, drain, app>>

HttpPostState(s, body) ==
  /\ pc[s] = "serving"
  /\ events < MaxEvents
  /\ events' = events + 1
  /\ LET h == handlePostState(inst[s], body) IN
     /\ inst' = [inst EXCEPT ![s] = h.obj]
     /\ trace' = Traced(s, "POST /state",
                        [method |-> "POST", path |-> "state",
                         port |-> Num(listenPort[s]), body |-> body],
                        h, getState(inst[s]), ParsedObject(body))
  /\ lastGet' = [lastGet EXCEPT ![s] = NoGet]
  /\ UNCHANGED <<pc, op, isRunning, result, listenPort, transient, find, foreign>>
  /\ UNCHANGED <<inflight, drain, app>>

\* requests of any verb and path; GET /state is HttpGetState. A handler that
\* lets an exception escape sends no response (status 0) and ends the process.
Methods == {"GET", "POST", "PUT"}
Paths ==
  {"state", "greet", "failingMethod", "sampleMethod", "nope"}
RequestBodies ==
  { JsonArray(<<Str("Ann")>>), JSONstringify("message" :> Str("Hi")),
    EmptyBody, MalformedBody }

\* a second writeHead on one response: the runtime either throws
\* ERR_HTTP_HEADERS_SENT, which escapes the catch block it was called in (no
\* response), or takes the later status
writeHeadOutcomes(h) ==
  IF "heads" \in DOMAIN h /\ h.heads > 1
  THEN {h, [h EXCEPT !.status = 0, !.body = EmptyBody]}
  ELSE {h}

HttpRequest(s, method, path, body) ==
  /\ pc[s] = "serving"
  /\ ~(method = "GET" /\ path = "state")
  \* only the POST branches read the body of the request
  /\ method = "POST" \/ body = EmptyBody
  /\ events < MaxEvents
  /\ events' = events + 1
  /\ \E h \in writeHeadOutcomes(handleRequest(inst[s], method, path, body)) :
     LET req == [method |-> method, path |-> path,
                 port |-> Num(listenPort[s]), body |-> body]
         kind == IF method # "POST" THEN "other"
                 ELSE IF path = "state" THEN "POST /state" ELSE "POST /call"
     IN  /\ inst' = [inst EXCEPT ![s] = h.obj]
         /\ trace' = Traced(s, kind, req, h, getState(inst[s]),
                            IF path = "state" THEN ParsedObject(body)
                            ELSE IF body.k = "object" THEN body.obj ELSE EmptyObj)
         /\ pc' = [pc EXCEPT ![s] = IF h.status = 0 THEN "crashed" ELSE @]
         /\ listenPort' = [listenPort EXCEPT ![s] = IF h.status = 0 THEN 0 ELSE @]
  /\ lastGet' = [lastGet EXCEPT ![s] = NoGet]
  /\ UNCHANGED <<op, isRunning, result, transient, find, foreign, inflight,
                 drain, app>>

\* ── probe(), step by step ── (DynamicServerApp.probe)
\* an outcome of a fetch: a response with its status and body, or a rejection
Response(status, body) == [kind |-> "response", status |-> status, body |-> body]
Refused == [kind |-> "refused", status |-> 0, body |-> EmptyBody]
FetchError == [kind |-> "error", status |-> 0, body |-> EmptyBody]
Aborted == [kind |-> "aborted", status |-> 0, body |-> EmptyBody]

\* res.ok
resOk(o) == o.status \in 200..299

\* what a program of another kind bound to the port sends back
ForeignReplies ==
  { Response(200, MalformedBody), Response(200, JsonObject(EmptyObj)),
    Response(404, TextBody("Not Found")), Response(500, EmptyBody), FetchError }

\* the ways the fetch of process i to its port can settle in this state
OutcomesAt(i) ==
  LET port == inst[i]["port"] IN
  IF port.t # "number" THEN {FetchError}
  ELSE IF PeersAt(port) # {}
  THEN {Response(200, JsonObject(getState(inst[s]))) : s \in PeersAt(port)}
  ELSE IF port.n \in foreign THEN ForeignReplies
  ELSE IF \E j \in Procs : transient[j] = port.n THEN {FetchError}
  ELSE {Refused}

\* a probe without the catch around its fetch
probeSettleNoCatch(o) ==
  IF o.kind = "response" THEN [rejected |-> FALSE, value |-> resOk(o)]
  ELSE [rejected |-> TRUE, value |-> FALSE]

\* how the promise of probe() settles for an outcome of its fetch
probeSettle(o) ==
  IF o.kind = "response" THEN [rejected |-> FALSE, value |-> resOk(o)]
  ELSE [rejected |-> FALSE, value |-> FALSE]

\* a call of probe() by the program (caller "probe") or by setState: the
\* request is sent and the abort timer armed
ProbeStart(i, caller, diff) ==
  /\ pc[i] = "idle"
  /\ events < MaxEvents
  /\ events' = events + 1
  /\ pc' = [pc EXCEPT ![i] = "probing"]
  /\ op' = [op EXCEPT ![i] =
              [NoOp EXCEPT !.kind = caller, !.diff = diff,
                           !.prev = IF result[i].kind = "set"
                                    THEN result[i].route ELSE "none"]]
  /\ result' = [result EXCEPT ![i] = NoResult]
  /\ UNCHANGED <<inst, isRunning, listenPort, transient, find, foreign, trace,
                 lastGet, inflight, drain, app>>

ProbeCall(i) == ProbeStart(i, "probe", EmptyObj)

SetStateProbe(i, diff) == ProbeStart(i, "set", diff)

\* the promise of probe() settles: a direct call returns to the program,
\* setState goes on to its branch
ProbeSettled(i, o) ==
  LET r == probeSettle(o) IN
  /\ isRunning' = [isRunning EXCEPT ![i] = r.value]
  /\ IF op[i].kind = "probe"
     THEN /\ pc' = [pc EXCEPT ![i] = "idle"]
          /\ op' = [op EXCEPT ![i] = NoOp]
          /\ result' = [result EXCEPT ![i] =
                          [kind |-> "probe", outcome |-> o,
                           rejected |-> r.rejected, value |-> r.value]]
     ELSE /\ pc' = [pc EXCEPT ![i] = "route"]
          /\ op' = [op EXCEPT ![i].answered = r.value,
                              ![i].peerUp = PeersAt(inst[i]["port"]) # {}]
          /\ UNCHANGED result

\* the fetch settles before the timer fires
ProbeFetched(i, o) ==
  /\ pc[i] = "probing"
  /\ o \in OutcomesAt(i)
  /\ ProbeSettled(i, o)
  /\ lastGet' = [s \in Procs |->
                   IF s \in PeersAt(inst[i]["port"])
                      /\ o = Response(200, JsonObject(getState(inst[s])))
                   THEN [seen |-> TRUE, state |-> getState(inst[s])]
                   ELSE lastGet[s]]
  /\ UNCHANGED <<inst, listenPort, transient, find, foreign, trace, events,
                 inflight, drain, app>>

\* an abort timer that gives up without aborting the fetch
ProbeAbortNever(i) ==
  /\ FALSE
  /\ UNCHANGED vars

\* the timer fires first: controller.abort() rejects the fetch
ProbeAbort(i) ==
  /\ pc[i] = "probing"
  /\ ProbeSettled(i, Aborted)
  /\ UNCHANGED <<inst, listenPort, transient, find, foreign, trace, lastGet,
                 events, inflight, drain, app>>

\* ── graceful shutdown ── (startServer.gracefulShutdown, first revision)
Signals == {"SIGTERM", "SIGINT"}

\* the bodies of the requests in flight: a patch and a malformed text
PendingBodies == { JSONstringify("message" :> Str("Hi")), MalformedBody }

\* a POST /state request is accepted: its body is still arriving
HttpOpen(s) ==
  /\ pc[s] = "serving"
  /\ events < MaxEvents
  /\ inflight[s] < MaxInflight
  /\ events' = events + 1
  /\ inflight' = [inflight EXCEPT ![s] = @ + 1]
  /\ UNCHANGED <<inst, pc, op, isRunning, result, listenPort, transient, find,
                 foreign, trace, lastGet, drain, app>>

\* the 'end' event of an accepted request: the handler runs and answers
HttpEnd(s, body) ==
  /\ pc[s] \in {"serving", "draining"}
  /\ inflight[s] > 0
  /\ inflight' = [inflight EXCEPT ![s] = @ - 1]
  /\ LET h == handlePostState(inst[s], body) IN
     /\ inst' = [inst EXCEPT ![s] = h.obj]
     /\ trace' = Traced(s, "POST /state",
                        [method |-> "POST", path |-> "state",
                         port |-> inst[s]["port"], body |-> body],
                        h, getState(inst[s]), ParsedObject(body))
  /\ lastGet' = [lastGet EXCEPT ![s] = NoGet]
  /\ drain' = [drain EXCEPT ![s].completed =
                 IF pc[s] = "draining" THEN @ + 1 ELSE @]
  /\ UNCHANGED <<pc, op, isRunning, result, listenPort, transient, find,
                 foreign, events, app>>

\* gracefulShutdown(signal): server.close() stops listening, the timer is set;
\* the name of the signal is not used
Signal(s, signal) ==
  /\ pc[s] = "serving"
  /\ events < MaxEvents
  /\ events' = events + 1
  /\ pc' = [pc EXCEPT ![s] = "draining"]
  /\ listenPort' = [listenPort EXCEPT ![s] = 0]
  /\ drain' = [drain EXCEPT ![s] = NoDrain]
  /\ UNCHANGED <<inst, op, isRunning, result, transient, find, foreign, trace,
                 lastGet, inflight, app>>

\* time passes for the timer of the shutdown
Tick(s) ==
  /\ pc[s] = "draining"
  /\ drain[s].elapsed < GraceTicks
  /\ drain' = [drain EXCEPT ![s].elapsed = @ + 1]
  /\ UNCHANGED <<inst, pc, op, isRunning, result, listenPort, transient, find,
                 foreign, trace, lastGet, events, inflight, app>>

\* how the process ended: exit code, unanswered requests, ticks since the signal
Exited(s, code) ==
  [result EXCEPT ![s] =
     [kind |-> "exit", exit |-> code, pending |-> inflight[s],
      elapsed |-> drain[s].elapsed, completed |-> drain[s].completed]]

\* the callback of server.close(): every connection has ended, process.exit(0)
CloseDone(s) ==
  /\ pc[s] = "draining"
  /\ inflight[s] = 0
  /\ pc' = [pc EXCEPT ![s] = "exited"]
  /\ result' = Exited(s, 0)
  /\ UNCHANGED <<inst, op, isRunning, listenPort, transient, find, foreign,
                 trace, lastGet, events, inflight, drain, app>>

\* a shutdown without the timer
ForceExitNever(s) ==
  /\ FALSE
  /\ UNCHANGED vars

\* the timer fires after the grace period: process.exit(1)
ForceExit(s) ==
  /\ pc[s] = "draining"
  /\ drain[s].elapsed = GraceTicks
  /\ pc' = [pc EXCEPT ![s] = "exited"]
  /\ result' = Exited(s, 1)
  /\ UNCHANGED <<inst, op, isRunning, listenPort, transient, find, foreign,
                 trace, lastGet, events, inflight, drain, app>>

\* ── the App variant ── (class App, createStatefulProxy, serve, run)
\* class SampleClass extends App: own data fields set by the constructors
NewApp ==
  [k \in {"port", "message"} |->
     IF k = "port" THEN Num(BasePort) ELSE Str("Hello, world!")]

\* methods of the chain, most derived first; every prototype also has
\* constructor, and Object.prototype has toString
AppChain ==
  << [methods |-> {"defaultFunction", "greet"}],
     [methods |-> {"toJSON", "fromJSON", "save", "load", "probe", "setState"}] >>
AppLifecycle == AppChain[2].methods
AppMethods ==
  UNION {AppChain[l].methods : l \in DOMAIN AppChain} \cup ObjectPrototypeKeys

\* typeof app[name] === 'function': an own property hides the prototype's
AppIsFunction(obj, name) ==
  IF name \in DOMAIN obj THEN obj[name].t = "function" ELSE name \in AppMethods

toJSON(obj) == [k \in {k \in DOMAIN obj : obj[k].t # "function"} |-> obj[k]]

fromJSON(obj, data) ==
  [k \in DOMAIN obj \cup DOMAIN data |->
     IF k \in DOMAIN data THEN data[k] ELSE obj[k]]

\* save: Bun.write('.app-state.json', JSON.stringify(this.toJSON()))
save(obj) == [present |-> TRUE, data |-> JSONstringify(toJSON(obj)).obj]

\* load: fromJSON(JSON.parse(text)); a missing file is ignored
load(obj, file) == IF file.present THEN fromJSON(obj, file.data) ELSE obj

\* findAvailablePort(start) of the variant: the first of 50 ports that binds
AppPortRange == 50
firstFree(start) ==
  LET free == {p \in start..(start + AppPortRange - 1) : p \notin BoundPorts}
  IN  IF free = {} THEN 0 ELSE CHOOSE p \in free : \A q \in free : p <= q

\* a JSON-RPC request body { method, params }: params holds scalars, or one
\* object (data) as its first member
Rpc(method, params) ==
  [method |-> method, params |-> params, data |-> EmptyObj, hasData |-> FALSE,
   malformed |-> FALSE]
RpcData(method, data) ==
  [method |-> method, params |-> <<>>, data |-> data, hasData |-> TRUE,
   malformed |-> FALSE]
RpcMalformed ==
  [method |-> "", params |-> <<>>, data |-> EmptyObj, hasData |-> FALSE,
   malformed |-> TRUE]

\* POST /state of the variant up to its `await app.save()`: req.json() is
\* outside any try, so an undecodable body is answered by the runtime's error
\* response (500); waits: the handler is suspended in save, its response not
\* yet built (state is the snapshot it would answer with if nothing ran
\* meanwhile)
appPostState(obj, file, body) ==
  IF JSONparseThrows(body)
  THEN [status |-> 500, obj |-> obj, file |-> file, value |-> Undefined,
        state |-> EmptyObj, waits |-> FALSE]
  ELSE LET current == toJSON(obj)
           patch == [k \in {k \in ParsedKeys(body) :
                              ~isEqual(ParsedObject(body)[k], Lookup(current, k))}
                       |-> ParsedObject(body)[k]]
           after == IF DOMAIN patch # {} THEN fromJSON(obj, patch) ELSE obj
       IN  [status |-> 200, obj |-> after,
            file |-> IF DOMAIN patch # {} THEN save(after) ELSE file,
            value |-> Undefined, state |-> toJSON(after),
            waits |-> DOMAIN patch # {}]

\* the JSON-RPC dispatch of serve: `typeof app[method] === 'function'`, the
\* call through the proxy (an assignment saves), 404 for any other name, 500
\* for whatever throws
rpc(obj, file, req) ==
  LET Reply(status, o, f, value, state) ==
        [status |-> status, obj |-> o, file |-> f, value |-> value, state |-> state]
      Throw == Reply(500, obj, file, Undefined, EmptyObj)
  IN
  IF req.malformed THEN Throw
  ELSE IF ~AppIsFunction(obj, req.method)
  THEN Reply(404, obj, file, Undefined, EmptyObj)
  ELSE CASE req.method = "greet" ->
              Reply(200, obj, file,
                    [t |-> "string", n |-> 0,
                     s |-> <<"Hello, ">> \o ToStr(Arg(req.params, 1))
                             \o <<"! Message: ">> \o ToStr(Lookup(obj, "message"))],
                    EmptyObj)
         [] req.method = "defaultFunction" ->
              Reply(200, obj, file,
                    [t |-> "string", n |-> 0, s |-> ToStr(Lookup(obj, "message"))],
                    EmptyObj)
         [] req.method = "toJSON" ->
              Reply(200, obj, file, Undefined, toJSON(obj))
         [] req.method = "fromJSON" ->
              IF ~req.hasData THEN Throw
              ELSE Reply(200, fromJSON(obj, req.data),
                         IF DOMAIN req.data # {}
                         THEN save(fromJSON(obj, req.data)) ELSE file,
                         Undefined, EmptyObj)
         [] req.method = "save" ->
              Reply(200, obj, save(obj), Undefined, EmptyObj)
         [] req.method = "load" ->
              Reply(200, load(obj, file),
                    IF file.present /\ DOMAIN file.data # {}
                    THEN save(load(obj, file)) ELSE file,
                    Undefined, EmptyObj)
         [] req.method = "probe" ->
              Reply(200, obj, file, Bool(TRUE), EmptyObj)
         [] req.method = "setState" ->
              IF ~req.hasData
              THEN Reply(200, obj, file, Undefined, EmptyObj)
              ELSE LET h == appPostState(obj, file, JSONstringify(req.data))
                   IN  Reply(200, h.obj, h.file, Undefined, h.state)
         [] req.method = "toString" ->
              Reply(200, obj, file, Str("[object Object]"), EmptyObj)
         [] OTHER -> Throw

\* whether the call of a method through the proxy assigns a property or calls
\* save, that is, starts a write of the file
rpcSaves(obj, file, req) ==
  /\ ~req.malformed
  /\ AppIsFunction(obj, req.method)
  /\ CASE req.method = "fromJSON" -> req.hasData /\ DOMAIN req.data # {}
       [] req.method = "save" -> TRUE
       [] req.method = "load" -> file.present /\ DOMAIN file.data # {}
       [] req.method = "setState" ->
            req.hasData /\ appPostState(obj, file, JSONstringify(req.data)).waits
       [] OTHER -> FALSE

\* run(app): --port, load, the proxy, then serve (probe, findAvailablePort,
\* app.port = port through the proxy, Bun.serve) or defaultFunction
AppRun(serve, flag) ==
  /\ app.pc = "off"
  /\ events < MaxEvents
  /\ events' = events + 1
  /\ LET flagged == IF flag # 0 THEN [NewApp EXCEPT !["port"] = Num(flag)]
                    ELSE NewApp
         loaded == load(flagged, app.file)
         port == firstFree(loaded["port"].n)
         bound == [loaded EXCEPT !["port"] = Num(port)]
         ran == [serve |-> serve, flag |-> flag,
                 loaded |-> IF app.file.present
                            THEN Lookup(app.file.data, "port") ELSE Undefined,
                 requested |-> loaded["port"]]
     IN  /\ loaded["port"].t = "number"
         /\ port # 0
         /\ IF serve
            THEN app' = [pc |-> "serving", obj |-> bound, file |-> app.file,
                         listen |-> port, run |-> ran, last |-> NoLast,
                         pending |-> {}, saves |-> {save(bound)}]
            ELSE app' = [app EXCEPT
                           !.obj = loaded, !.run = ran,
                           !.last = [NoLast EXCEPT
                                       !.kind = "default",
                                       !.pre = toJSON(loaded),
                                       !.value = rpc(loaded, app.file,
                                                     Rpc("defaultFunction", <<>>)).value]]
  /\ UNCHANGED <<inst, pc, op, isRunning, result, listenPort, transient, find,
                 foreign, trace, lastGet, inflight, drain>>

\* SIGTERM or SIGINT: server.stop(); process.exit(0); the writes in flight
\* are given up
AppStop ==
  /\ app.pc = "serving"
  /\ events < MaxEvents
  /\ events' = events + 1
  /\ app' = [app EXCEPT !.pc = "off", !.listen = 0, !.pending = {},
                         !.saves = {}]
  /\ UNCHANGED <<inst, pc, op, isRunning, result, listenPort, transient, find,
                 foreign, trace, lastGet, inflight, drain>>

\* a POST to any path but /state and /health
AppRpc(req) ==
  /\ app.pc = "serving"
  /\ events < MaxEvents
  /\ events' = events + 1
  /\ LET h == rpc(app.obj, app.file, req) IN
     app' = [app EXCEPT
               !.obj = h.obj,
               !.saves = IF rpcSaves(app.obj, app.file, req)
                         THEN @ \cup {h.file} ELSE @,
               !.last = [kind |-> "rpc", method |-> req.method,
                         status |-> h.status, pre |-> toJSON(app.obj),
                         same |-> (h.obj = app.obj), value |-> h.value,
                         state |-> h.state, hasData |-> req.hasData,
                         arg |-> req.data]]
  /\ UNCHANGED <<inst, pc, op, isRunning, result, listenPort, transient, find,
                 foreign, trace, lastGet, inflight, drain>>

AppPostState(body) ==
  /\ app.pc = "serving"
  /\ events < MaxEvents
  /\ events' = events + 1
  /\ LET h == appPostState(app.obj, app.file, body) IN
     IF h.waits
     THEN app' = [app EXCEPT
                    !.obj = h.obj, !.saves = @ \cup {h.file},
                    !.pending = @ \cup {[pre |-> toJSON(app.obj),
                                         arg |-> ParsedObject(body)]}]
     ELSE app' = [app EXCEPT
                    !.last = [kind |-> "POST /state", method |-> "",
                              status |-> h.status, pre |-> toJSON(app.obj),
                              same |-> TRUE, value |-> h.value,
                              state |-> h.state, hasData |-> body.k = "object",
                              arg |-> ParsedObject(body)]]
  /\ UNCHANGED <<inst, pc, op, isRunning, result, listenPort, transient, find,
                 foreign, trace, lastGet, inflight, drain>>

\* the save of a POST /state is done: the handler resumes and answers with
\* `app.toJSON()` as it is now
AppPostRespond ==
  /\ app.pc = "serving"
  /\ \E r \in app.pending :
     app' = [app EXCEPT
               !.pending = @ \ {r},
               !.last = [kind |-> "POST /state", method |-> "",
                         status |-> 200, pre |-> r.pre, same |-> FALSE,
                         value |-> Undefined, state |-> toJSON(app.obj),
                         hasData |-> TRUE, arg |-> r.arg]]
  /\ UNCHANGED <<inst, pc, op, isRunning, result, listenPort, transient, find,
                 foreign, trace, lastGet, inflight, drain, events>>

\* a Bun.write of save completes: the file holds the text that save was
\* given; nothing orders the writes that are in flight
AppSaveDone ==
  /\ app.pc = "serving"
  /\ \E text \in app.saves :
       app' = [app EXCEPT !.file = text, !.saves = @ \ {text}]
  /\ UNCHANGED <<inst, pc, op, isRunning, result, listenPort, transient, find,
                 foreign, trace, lastGet, inflight, drain, events>>

\* fromJSON called on an instance that no server holds
AppFromJSON(data) ==
  /\ app.pc = "off"
  /\ events < MaxEvents
  /\ events' = events + 1
  /\ LET obj == IF app.obj = EmptyObj THEN NewApp ELSE app.obj IN
     app' = [app EXCEPT
               !.obj = fromJSON(obj, data),
               !.last = [NoLast EXCEPT
                           !.kind = "fromJSON", !.pre = toJSON(obj),
                           !.same = (fromJSON(obj, data) = obj),
                           !.state = toJSON(fromJSON(obj, data)),
                           !.hasData = TRUE, !.arg = data]]
  /\ UNCHANGED <<inst, pc, op, isRunning, result, listenPort, transient, find,
                 foreign, trace, lastGet, inflight, drain>>

\* the command lines and requests of the variant
AppFlags == {0, BasePort, BasePort + 1}
RpcRequests ==
  { Rpc("greet", <<Str("Ann")>>), Rpc("toJSON", <<>>), Rpc("save", <<>>),
    Rpc("load", <<>>), Rpc("constructor", <<>>), Rpc("nope", <<>>),
    RpcData("fromJSON", "message" :> Str("Hi")),
    RpcData("fromJSON", "fakeKey" :> Num(42)),
    RpcMalformed }
AppBodies ==
  { JSONstringify("message" :> Str("Hi")), JSONstringify("port" :> Num(BasePort + 1)),
    MalformedBody }

\* ── setSystemMessage ── called on the instance of a process; the n-th call
\* on an instance passes the numeral of n, so that the entries tell the calls
\* apart
MaxLogged == 102

Logged(i) ==
  LET log == inst[i]["systemLog"].s IN
  IF log = <<>> THEN 0
  ELSE CHOOSE n \in 1..(MaxLogged + 1) : ToString(n) = log[Len(log)]

RECURSIVE SumLogged(_)
SumLogged(P) ==
  IF P = {} THEN 0
  ELSE LET i == CHOOSE j \in P : TRUE IN Logged(i) + SumLogged(P \ {i})

SetSystemMessage(i) ==
  /\ pc[i] = "idle"
  /\ SumLogged(Procs) < MaxLogged
  /\ inst' = [inst EXCEPT ![i] =
                invoke(inst[i], "setSystemMessage",
                       <<Str(ToString(Logged(i) + 1))>>).obj]
  /\ UNCHANGED <<pc, op, isRunning, result, listenPort, transient, find,
                 foreign, trace, lastGet, events, inflight, drain, app>>

\* ------------------------------------------------------- specifications
Serving ==
  \/ \E i \in Procs, pref \in PreferredPorts \cup {0} : Serve(i, pref)
  \/ \E i \in Procs : FindTry(i)
  \/ \E i \in Procs : FindRelease(i)
  \/ \E i \in Procs : Listen(i)
  \/ \E i \in Procs : Kill(i)

\* commands and setState calls beside processes that serve
NextRoute ==
  \/ Serving
  \/ \E i \in Procs, timely \in BOOLEAN : GetBegin(i, "message", timely)
  \/ \E i \in Procs : GetFinish(i)
  \/ \E i \in Procs, diff \in Diffs, timely \in BOOLEAN :
       SetStateBegin(i, diff, timely)
  \/ \E i \in Procs : SetStateFinish(i)
  \/ \E i \in Procs, name \in {"greet", "failingMethod", "nope"},
          timely \in BOOLEAN :
       CallBegin(i, name, <<Str("Ann")>>, timely)
  \/ \E i \in Procs : CallFinish(i)

SpecRoute == Init /\ [][NextRoute]_vars

\* setState calls on either route, with every diff of the set command
NextSet ==
  \/ Serving
  \/ \E i \in Procs, diff \in SetDiffs, timely \in BOOLEAN :
       SetStateBegin(i, diff, timely)
  \/ \E i \in Procs : SetStateFinish(i)

SpecSet == Init /\ [][NextSet]_vars

\* setSystemMessage calls
NextLog == \E i \in Procs : SetSystemMessage(i)

SpecLog == Init /\ [][NextLog]_vars

\* servers, their HTTP clients and direct writes of the instance
NextServer ==
  \/ Serving
  \/ \E s \in Procs : HttpGetState(s)
  \/ \E s \in Procs, body \in Bodies : HttpPostState(s, body)
  \/ \E i \in Procs, data \in LocalData : ApplyStateUpdate(i, data)
  \/ \E i \in Procs : ApplySnapshot(i)

SpecServer == Init /\ [][NextServer]_vars

\* port allocation, with every maxAttempts up to MaxTried
NextFind ==
  \/ Serving
  \/ \E i \in Procs, start \in PreferredPorts, maxAttempts \in 1..MaxTried :
       FindCall(i, start, maxAttempts)
  \/ \E i \in Procs : FindDone(i)

SpecFind == Init /\ [][NextFind]_vars

\* probe() and setState against servers, other programs and free ports
NextProbe ==
  \/ Serving
  \/ \E i \in Procs : ProbeCall(i)
  \/ \E i \in Procs, diff \in ProbeDiffs : SetStateProbe(i, diff)
  \/ \E i \in Procs, o \in ForeignReplies \cup {Refused} : ProbeFetched(i, o)
  \/ \E i \in Procs, s \in Procs :
       ProbeFetched(i, Response(200, JsonObject(getState(inst[s]))))
  \/ \E i \in Procs : ProbeAbort(i)
  \/ \E i \in Procs : SetStateFinish(i)

SpecProbe == Init /\ [][NextProbe]_vars

\* the timer of a pending probe fires unless the fetch settles first
SpecProbeLive == SpecProbe /\ \A i \in Procs : WF_vars(ProbeAbort(i))

\* a server and requests of every verb, path and body
NextOps ==
  \/ Serving
  \/ \E s \in Procs : HttpGetState(s)
  \/ \E s \in Procs, method \in Methods, path \in Paths, body \in RequestBodies :
       HttpRequest(s, method, path, body)

SpecOps == Init /\ [][NextOps]_vars

\* the same requests, and those of an operation whose result cannot be
\* serialized
NextReplies ==
  \/ Serving
  \/ \E s \in Procs, method \in Methods, path \in Paths \cup {"cyclicMethod"},
          body \in RequestBodies :
       HttpRequest(s, method, path, body)

SpecReplies == Init /\ [][NextReplies]_vars

\* servers, requests in flight and termination signals
NextShutdown ==
  \/ Serving
  \/ \E s \in Procs : HttpOpen(s)
  \/ \E s \in Procs, body \in PendingBodies : HttpEnd(s, body)
  \/ \E s \in Procs, signal \in Signals : Signal(s, signal)
  \/ \E s \in Procs : Tick(s)
  \/ \E s \in Procs : CloseDone(s)
  \/ \E s \in Procs : ForceExit(s)

SpecShutdown == Init /\ [][NextShutdown]_vars

\* time passes and the timer of a shutdown fires
SpecShutdownLive ==
  SpecShutdown /\ \A s \in Procs : WF_vars(Tick(s)) /\ WF_vars(ForceExit(s))

\* operation calls: POST /<name> with argument lists, and the call command
CallPaths == {"state", "greet", "defaultFunction", "getState", "constructor"}
CallBodies ==
  { JsonArray(<<Str("Ann"), Str("Bob")>>), JSONstringify("message" :> Str("Hi")),
    EmptyBody, MalformedBody }
CliWords == { <<Str("Ann")>>, <<Str("Ann"), Str("Bob")>>, <<>> }

NextCalls ==
  \/ Serving
  \/ \E s \in Procs, path \in CallPaths, body \in CallBodies :
       HttpRequest(s, "POST", path, body)
  \/ \E i \in Procs, words \in CliWords, timely \in BOOLEAN :
       CallBegin(i, "greet", words, timely)
  \/ \E i \in Procs : CallFinish(i)

SpecCalls == Init /\ [][NextCalls]_vars

\* writes of any key and type, then calls
WriteData ==
  { "port" :> Str("oops"), ("message" :> Str("hello")) @@ ("fakeKey" :> Num(42)),
    "greet" :> Str("x"), "dynamicValue" :> Num(5) }

\* bodies of a POST /state that are JSON but no object: null, 5, "Hi",
\* ["Ann"], []
NonObjectBodies ==
  { JsonScalar(Null), JsonScalar(Num(5)), JsonString(<<Str("H"), Str("i")>>),
    JsonArray(<<Str("Ann")>>), JsonArray(<<>>) }

NextWrites ==
  \/ Serving
  \/ \E s \in Procs, body \in NonObjectBodies : HttpPostState(s, body)
  \/ \E i \in Procs, data \in WriteData : ApplyStateUpdate(i, data)
  \/ \E s \in Procs, data \in WriteData : HttpPostState(s, JSONstringify(data))
  \/ \E s \in Procs : HttpRequest(s, "POST", "greet", JsonArray(<<Str("Ann")>>))
  \/ \E data \in WriteData : AppFromJSON(data)

SpecWrites == Init /\ [][NextWrites]_vars

\* the App variant: runs, stops and requests of its server
NextApp ==
  \/ \E serve \in BOOLEAN, flag \in AppFlags : AppRun(serve, flag)
  \/ AppStop
  \/ \E req \in RpcRequests : AppRpc(req)
  \/ \E body \in AppBodies : AppPostState(body)
  \/ AppPostRespond
  \/ AppSaveDone

SpecApp == Init /\ [][NextApp]_vars

Next ==
  \/ NextRoute \/ NextServer \/ NextFind \/ NextProbe \/ NextOps
  \/ NextShutdown \/ NextApp \/ NextCalls \/ NextWrites \/ NextSet
  \/ NextLog \/ NextReplies

Spec == Init /\ [][Next]_vars


\* ------------------------------------------------------------------ claims
Ops == {"get", "set", "call"}

\* C1: every top-level get, set and call routes by its own probe: it goes to
\* the peer exactly when the peer answered the probe made for this operation,
\* whatever an earlier operation of the process found.
C1_RoutesByOwnProbe ==
  \A i \in Procs :
    /\ pc[i] = "route" => (isRunning[i] <=> op[i].answered)
    /\ result[i].kind \in Ops =>
         (result[i].route = "remote" <=> result[i].answered)

\* a setState routed to a peer that appeared after the previous setState of the
\* same process had been applied locally
C1_Witness ==
  \E i \in Procs :
    result[i].kind = "set" /\ result[i].route = "remote" /\ result[i].prev = "local"

\* C2 as stated: with a peer Listening at the instance's port during the whole
\* setState call, the caller's own fields are not written and the patch goes
\* to the peer as one POST /state.
C2_PeerUpNoLocalWrite ==
  \A i \in Procs :
    (result[i].kind = "set" /\ result[i].peerUp) =>
      (~result[i].wroteSelf /\ Len(result[i].sent) = 1)

\* C2 amended: when the peer also answers the probe of the setState call in
\* time, the caller's own fields are not written, exactly one request is sent,
\* a POST /state to the instance's port carrying the patch as JSON, and the
\* server that handles it is the peer, not the caller.
C2_AnsweredNoLocalWrite ==
  \A i \in Procs :
    (result[i].kind = "set" /\ result[i].answered) =>
      /\ ~result[i].wroteSelf
      /\ result[i].route = "remote"
      /\ Len(result[i].sent) = 1
      /\ result[i].sent[1].method = "POST"
      /\ result[i].sent[1].path = "state"
      /\ result[i].sent[1].port = inst[i]["port"]
      /\ result[i].sent[1].body.k = "object"
      /\ result[i].sent[1].body.obj = result[i].diff
      /\ result[i].peerUp =>
           \E s \in Procs \ {i} : result[i].appliedAt = {s}

C2_Witness ==
  \E i \in Procs :
    /\ result[i].kind = "set" /\ result[i].answered /\ result[i].peerUp
    /\ result[i].appliedAt # {} /\ result[i].defined
    /\ Lookup(result[i].state, "message") = Str("Hi")
    /\ inst[i]["message"] = Str("Hello, world!")


\* the data fields of a snapshot: its keys that are not computed by a getter
DataFields(snapshot) == DOMAIN snapshot \ GetterKeys

\* C3: after a POST /state with a JSON object patch is answered 200, the state
\* in the response, and in every GET /state answered before the next write,
\* has the patch's value for each data field the patch names and the previous
\* value for each data field it does not name.
C3_PostStateOverlay ==
  \A s \in Procs :
    (trace[s].kind = "POST /state" /\ trace[s].status = 200) =>
      \A k \in DataFields(trace[s].pre) :
        LET expected == IF k \in DOMAIN trace[s].arg
                        THEN trace[s].arg[k] ELSE trace[s].pre[k] IN
        /\ Lookup(trace[s].state, k) = expected
        /\ lastGet[s].seen => Lookup(lastGet[s].state, k) = expected

C3_Witness ==
  \E s \in Procs :
    /\ trace[s].kind = "POST /state" /\ trace[s].status = 200
    /\ trace[s].arg = ("message" :> Str("Hi"))
    /\ trace[s].pre["message"] = Str("Hello, world!")
    /\ lastGet[s].seen
    /\ lastGet[s].state["message"] = Str("Hi")
    /\ lastGet[s].state["port"] = trace[s].pre["port"]

\* C4: a state write never creates a field: every key of the snapshot after a
\* POST /state or an applyStateUpdate was a key of the snapshot before it.
C4_NoFieldCreated ==
  \A s \in Procs :
    (trace[s].kind \in {"POST /state", "applyStateUpdate"}) =>
      DOMAIN trace[s].state \subseteq DOMAIN trace[s].pre

ReservedNames ==
  {"schema", "logToUI", "notifyEnabled", "isServerInstance", "systemMessage",
   "systemLog"}

CleanSnapshot(snapshot) ==
  \A k \in DOMAIN snapshot : snapshot[k].t # "function" /\ k \notin ReservedNames

C6_ApplySnapshotNoOp ==
  \A i \in Procs :
    (trace[i].kind = "applyStateUpdate" /\ trace[i].arg = trace[i].pre) =>
      (trace[i].state = trace[i].pre /\ getState(inst[i]) = trace[i].pre)

\* the snapshot of an instance with a created field and a computed key was
\* applied to it
C6_Witness ==
  \E i \in Procs :
    /\ trace[i].kind = "applyStateUpdate" /\ trace[i].arg = trace[i].pre
    /\ "dynamicValue" \in DOMAIN trace[i].pre
    /\ "c" \in DOMAIN trace[i].pre
    /\ trace[i].pre["message"] = Str("Hi")

\* C7: while a server is Listening, app.port equals the port its listener is
\* bound to, whatever POST /state requests it has handled.
C7_PortNotMutable ==
  \A s \in Procs : pc[s] = "serving" => inst[s]["port"] = Num(listenPort[s])

\* C8: no start fails when processes start servers concurrently with the same
\* preferred port: the real listen call never fails on a port that another
\* process bound after findAvailablePort released it.
C8_NoStartFails == \A i \in Procs : pc[i] # "crashed"

\* C9: findAvailablePort(start, maxAttempts) tries start, start+1, ... in
\* increasing order; what it returns is the first port whose transient bind
\* succeeded, released again, greater than every port whose bind failed; it
\* throws only when the binds of all maxAttempts candidates failed.
C9_FindAvailablePort ==
  \A i \in Procs :
    /\ pc[i] \in {"find", "release", "found", "listen", "serving", "crashed"} =>
         /\ find[i].failed = find[i].start..(find[i].port - 1)
         /\ find[i].i = Cardinality(find[i].failed)
    /\ pc[i] = "release" => transient[i] = find[i].port
    /\ pc[i] \in {"found", "listen", "serving", "crashed"} =>
         /\ transient[i] = 0
         /\ find[i].port \notin find[i].failed
         /\ find[i].i < find[i].max
         /\ find[i].start \in find[i].failed => find[i].port > find[i].start
    /\ pc[i] = "noPort" =>
         find[i].failed = find[i].start..(find[i].start + find[i].max - 1)

\* a call that returned a port above an occupied start
C9_Witness ==
  \E i \in Procs :
    pc[i] = "found" /\ find[i].port > find[i].start /\ find[i].max = MaxTried

\* a step of startServer in process i
StartStep(i) ==
  /\ pc[i] \in {"idle", "find", "release", "listen"}
  /\ pc'[i] \in {"find", "release", "listen", "serving", "crashed"}
  /\ ~find'[i].direct
  /\ pc'[i] # pc[i] \/ find'[i].i # find[i].i

\* C10: a server started with a preferred port that another server has been
\* Listening on since the request listens on a different port p; app.port is p
\* from the moment it is Listening and its GET /state reports p until a write;
\* no step of the start changes another process's instance or listener.
C10_Fallthrough ==
  \A i \in Procs :
    (pc[i] = "serving" /\ find[i].heldBy # {}) =>
      /\ listenPort[i] # find[i].start
      /\ trace[i].kind = "start" =>
           /\ inst[i]["port"] = Num(listenPort[i])
           /\ getState(inst[i])["port"] = Num(listenPort[i])
           /\ lastGet[i].seen => lastGet[i].state["port"] = Num(listenPort[i])

C10_StartFrame ==
  \A i \in Procs :
    StartStep(i) =>
      \A j \in Procs \ {i} :
        inst'[j] = inst[j] /\ listenPort'[j] = listenPort[j] /\ pc'[j] = pc[j]

C10_SecondStart == [] C10_Fallthrough /\ [][C10_StartFrame]_vars

C10_Witness ==
  \E i \in Procs :
    /\ pc[i] = "serving" /\ find[i].heldBy # {} /\ trace[i].kind = "start"
    /\ find[i].start = BasePort /\ listenPort[i] = BasePort + 1
    /\ lastGet[i].seen /\ lastGet[i].state["port"] = Num(BasePort + 1)
    /\ \E j \in find[i].heldBy : inst[j]["port"] = Num(BasePort)

\* C11: probe() never rejects. It resolves false when the connection was
\* refused, when the fetch failed in any other way (a reply that is no HTTP
\* response included), when the timer aborted it, and when the response has a
\* non-success status; it resolves true only on a response with a success
\* status received before the timeout.
C11_ProbeNeverRejects ==
  \A i \in Procs :
    result[i].kind = "probe" =>
      LET o == result[i].outcome IN
      /\ ~result[i].rejected
      /\ o.kind \in {"refused", "error", "aborted"} => ~result[i].value
      /\ (o.kind = "response" /\ o.status \notin 200..299) => ~result[i].value
      /\ result[i].value => (o.kind = "response" /\ o.status \in 200..299)

\* a probe of a Listening peer that the timer aborted
C11_Witness ==
  \E i \in Procs :
    /\ result[i].kind = "probe" /\ result[i].outcome.kind = "aborted"
    /\ ~result[i].value
    /\ PeersAt(inst[i]["port"]) # {}

WireStatus(req) ==
  IF req.path = "state"
  THEN CASE req.method = "GET" -> 200
         [] req.method = "POST" -> IF JSONparseThrows(req.body) THEN 400 ELSE 200
         [] OTHER -> 405
  ELSE IF req.method = "POST" /\ req.path \in buildRoutes
  THEN IF JSONparseThrows(req.body) \/ req.path = "failingMethod" THEN 500 ELSE 200
  ELSE 404

C17_ErrorsAreJson ==
  \A s \in Procs :
    trace[s].status \in {400, 404, 405, 500} =>
      /\ trace[s].resp.k = "object"
      /\ "error" \in DOMAIN trace[s].resp.obj
      /\ trace[s].resp.obj["error"].t = "string"

\* the methods defined on the intermediate ancestor class only
IntermediateOnly == ClassChain[2].methods \ ClassChain[1].methods

\* C20: a method defined only on an intermediate ancestor class of the
\* instance is a route of the server: POST /<name> with a JSON body invokes it
\* and is answered 200.
C20_InheritedInvocable ==
  \A s \in Procs :
    (trace[s].kind = "POST /call" /\ trace[s].req.path \in IntermediateOnly
     /\ ~JSONparseThrows(trace[s].req.body)) =>
      trace[s].status = 200

\* C15: a local setState assigns only the fields whose proposed value differs
\* from the value in the current snapshot; a patch that changes nothing
\* assigns no field.
C15_LocalSetWritesDiffOnly ==
  \A i \in Procs :
    trace[i].kind = "setState" =>
      \A k \in trace[i].writes :
        ~isEqual(trace[i].arg[k], Lookup(trace[i].pre, k))

\* C19: when the probe of a setState succeeded and its POST /state then found
\* no server to handle it (the connection failed, or what answered was not a
\* decodable state response), setState returns undefined without throwing,
\* having sent that one request, and no own property of the caller changed.
C19_RemoteFailureUndefined ==
  \A i \in Procs :
    (result[i].kind = "set" /\ result[i].answered /\ result[i].appliedAt = {}) =>
      /\ result[i].route = "remote"
      /\ ~result[i].defined
      /\ result[i].exit = 0
      /\ ~result[i].wroteSelf
      /\ Len(result[i].sent) = 1
      /\ result[i].sent[1].method = "POST"

\* the peer answered the probe and was gone when the POST was sent
C19_Witness ==
  \E i \in Procs :
    /\ result[i].kind = "set" /\ result[i].answered /\ result[i].appliedAt = {}
    /\ ~result[i].defined
    /\ inst[i]["port"].n \notin foreign
    /\ inst[i]["message"] = Str("Hello, world!")
    /\ result[i].diff["message"] = Str("Hi")

\* a program of another kind answered the probe with a success status and the
\* POST with something that is no state response
C19_ForeignReply ==
  \E i \in Procs :
    /\ result[i].kind = "set" /\ result[i].answered /\ result[i].appliedAt = {}
    /\ inst[i]["port"].n \in foreign

\* after the signal the server accepts no request and listens on no port; the
\* timer never lets the shutdown last longer than the grace period; exit code
\* 0 means every accepted request had been answered when the server closed,
\* exit code 1 means the grace period had expired
C18_Draining ==
  \A s \in Procs :
    /\ pc[s] = "draining" =>
         (listenPort[s] = 0 /\ PeersAt(inst[s]["port"]) \cap {s} = {}
          /\ drain[s].elapsed <= GraceTicks)
    /\ (pc[s] = "exited" /\ result[s].exit = 0) =>
         (result[s].pending = 0 /\ result[s].elapsed <= GraceTicks)
    /\ (pc[s] = "exited" /\ result[s].exit = 1) => result[s].elapsed = GraceTicks
    /\ pc[s] = "exited" => result[s].exit \in {0, 1}

\* a server that is not Listening accepts no new request
C18_NoNewRequests ==
  \A s \in Procs : pc[s] # "serving" => inflight'[s] <= inflight[s]

C18_ForcedExit ==
  \E s \in Procs :
    pc[s] = "exited" /\ result[s].exit = 1 /\ result[s].pending > 0

\* the base lifecycle methods of DynamicServerApp
Lifecycle == {"getState", "applyStateUpdate", "probe", "setState"}

\* C21: a request that names the constructor or a base lifecycle method is
\* answered 404 and leaves the instance as it was, at the route server
\* (POST /<name>) and at the JSON-RPC server ({method: <name>}).
C21_LifecycleNotInvocable ==
  /\ \A s \in Procs :
       (trace[s].kind = "POST /call"
          /\ trace[s].req.path \in Lifecycle \cup {"constructor"}) =>
         (trace[s].status = 404 /\ trace[s].same)
  /\ (app.last.kind = "rpc"
        /\ app.last.method \in AppLifecycle \cup {"constructor"}) =>
       (app.last.status = 404 /\ app.last.same)

\* what greet(name) returns on an instance whose message is msg
Greeting(name, msg) ==
  [t |-> "string", n |-> 0,
   s |-> <<"Hello, ">> \o ToStr(name) \o <<"! Message: ">> \o ToStr(msg)]

\* a POST /greet with a JSON array is answered 200 with the greeting of the
\* first member of the array and leaves the instance as it was
C22_HttpCallExact ==
  \A s \in Procs :
    (trace[s].kind = "POST /call" /\ trace[s].req.path = "greet"
       /\ trace[s].req.body.k = "array") =>
      /\ trace[s].status = 200
      /\ trace[s].resp =
           ResultBody(Greeting(Arg(trace[s].req.body.arr, 1), trace[s].pre["message"]))
      /\ trace[s].same /\ trace[s].state = trace[s].pre

\* C22: invoking greet with an ordered argument list, by POST /greet with
\* that JSON array or by the call command when the probe found no peer, calls
\* the method with exactly those arguments and returns its result, and leaves
\* the fields of the instance as they were.
C22_CallExactArguments ==
  /\ C22_HttpCallExact
  /\ \A i \in Procs :
       (result[i].kind = "call" /\ result[i].route = "local"
          /\ result[i].key = "greet") =>
         /\ result[i].exit = 0
         /\ result[i].value =
              Greeting(Arg(result[i].args, 1), NewInstance["message"])
         /\ ~result[i].wroteSelf

\* the call command with one word: the method gets that word
C22_OneWord ==
  \A i \in Procs :
    (result[i].kind = "call" /\ result[i].route = "local"
       /\ result[i].key = "greet" /\ Len(result[i].args) = 1) =>
      result[i].value = Greeting(result[i].args[1], NewInstance["message"])

\* C23: a POST /<operationName> with an absent body invokes a zero-argument
\* operation with the empty argument list and is answered 200 with its result.
C23_EmptyBodyZeroArgs ==
  \A s \in Procs :
    (trace[s].kind = "POST /call" /\ trace[s].req.path = "defaultFunction"
       /\ trace[s].req.body.k = "empty") =>
      /\ trace[s].status = 200
      /\ trace[s].resp = ResultBody(invoke(inst[s], "defaultFunction", <<>>).value)

\* an absent or malformed body is answered 500 for every operation, and the
\* operation is not invoked
C23_BadBodyAlways500 ==
  \A s \in Procs :
    (trace[s].kind = "POST /call" /\ trace[s].req.path \in buildRoutes
       /\ trace[s].req.body.k \in {"empty", "malformed"}) =>
      (trace[s].status = 500 /\ trace[s].same
         /\ trace[s].resp = ErrorBody(JSONparseMessage(trace[s].req.body)))

\* the route server answers 404 for the constructor and the lifecycle methods
C21_RouteServer404 ==
  \A s \in Procs :
    (trace[s].kind = "POST /call"
       /\ trace[s].req.path \in Lifecycle \cup {"constructor"}) =>
      (trace[s].status = 404 /\ trace[s].same)

\* the status a peer gave to the request of the finished call of process i
PeerStatus(i) ==
  {trace[s].status : s \in {s \in result[i].appliedAt :
                              /\ trace[s].kind = "POST /call"
                              /\ Len(result[i].sent) = 1
                              /\ trace[s].req = result[i].sent[1]}}

\* C24: a call forwarded to a live peer that answers 500 (the operation
\* failed) or 404 (no such operation) ends with a non-zero exit code.
C24_RemoteFailureExitsNonZero ==
  \A i \in Procs :
    (result[i].kind = "call" /\ result[i].route = "remote"
       /\ PeerStatus(i) \cap {404, 500} # {}) =>
      result[i].exit # 0

\* a forwarded call answered 404 ends as one whose request never arrived
C24_NotFoundAsTransportFailure ==
  \E i \in Procs :
    /\ result[i].kind = "call" /\ result[i].route = "remote"
    /\ 404 \in PeerStatus(i)
    /\ result[i].exit = 1 /\ ~result[i].defined

C26_CliPortPreferred ==
  (app.pc = "serving" /\ app.run.flag # 0) =>
    /\ app.run.requested = Num(app.run.flag)
    /\ app.listen >= app.run.flag
    /\ \A p \in app.run.flag..(app.listen - 1) : p \in foreign

\* with no state file the port of the command line is the one handed to serve
C26_FirstRun ==
  (app.pc = "serving" /\ app.run.flag # 0 /\ app.run.loaded = Undefined) =>
    /\ app.run.requested = Num(app.run.flag)
    /\ app.listen >= app.run.flag
    /\ \A p \in app.run.flag..(app.listen - 1) : p \in foreign

\* C27: with several requests in flight on one listening server, the state in
\* the response of a POST /state answered 200 is the state before its patch
\* step overlaid with its own patch: no other request's write shows in it.
\* Stated for the server of the App variant, whose handler awaits save()
\* between applying the patch and building the response.
C27_PatchStepAtomic ==
  (app.last.kind = "POST /state" /\ app.last.status = 200) =>
    \A k \in DOMAIN app.last.pre :
      Lookup(app.last.state, k) =
        IF k \in DOMAIN app.last.arg THEN app.last.arg[k] ELSE app.last.pre[k]

\* the same statement for the route server of DynamicServerApp, whose handler
\* is the one synchronous 'end' callback: a request answered while another one
\* stays in flight
C27_RouteServerAtomic ==
  [][\A s \in Procs :
       (inflight[s] >= 2 /\ inflight'[s] < inflight[s] /\ trace'[s].status = 200) =>
         /\ trace'[s].pre = getState(inst[s])
         /\ \A k \in DataFields(trace'[s].pre) :
              Lookup(trace'[s].state, k) =
                IF k \in DOMAIN trace'[s].arg
                THEN trace'[s].arg[k] ELSE trace'[s].pre[k]]_vars

\* two accepted requests wait for their 'end' on one listening server
C27_SeveralInFlight ==
  \E s \in Procs : inflight[s] >= 2 /\ pc[s] = "serving"

\* C28: a POST /state answered 200 assigns only keys of its body whose value
\* differs from the value in the snapshot taken by the handler; when no key
\* of the body differs, nothing is assigned, the instance is left as it was
\* and the state in the response is the snapshot unchanged.
C28_OnlyDifferingKeys ==
  \A s \in Procs :
    (trace[s].kind = "POST /state" /\ trace[s].status = 200) =>
      LET differ == {k \in DOMAIN trace[s].arg :
                       ~isEqual(trace[s].arg[k], Lookup(trace[s].pre, k))}
      IN  /\ trace[s].writes \subseteq differ
          /\ differ = {} =>
               /\ trace[s].writes = {}
               /\ trace[s].same
               /\ trace[s].state = trace[s].pre

C28_Witness ==
  \E s \in Procs :
    /\ trace[s].kind = "POST /state" /\ trace[s].status = 200
    /\ trace[s].arg = ("message" :> Str("Hello, world!"))
    /\ trace[s].pre["message"] = Str("Hello, world!")
    /\ trace[s].writes = {}
    /\ trace[s].state = trace[s].pre

\* C29: in every state, an instance whose isServerInstance is true belongs to
\* a process whose server is listening: a bind that has failed does not leave
\* the mark.
C29_MarkedOnlyWhenListening ==
  \A i \in Procs :
    inst[i]["isServerInstance"] = Bool(TRUE) => listenPort[i] # 0

\* ... and the port it listens on is app.port
C29_MarkedListensOnAppPort ==
  \A i \in Procs :
    (inst[i]["isServerInstance"] = Bool(TRUE) /\ listenPort[i] # 0) =>
      inst[i]["port"] = Num(listenPort[i])

\* C30: no state write replaces a method or getter of the class chain: no
\* instance ever has an own property named like one, a computed key of the
\* snapshot keeps the value of its getter, and a POST /greet is answered 200
\* with the greeting of the class's greet whatever was written before it.
C30_MethodsNotReplaced ==
  /\ \A i \in Procs :
       /\ DOMAIN inst[i] \cap ProtoKeys = {}
       /\ \A k \in GetterKeys : Lookup(getState(inst[i]), k) = getterValue(inst[i], k)
  /\ \A s \in Procs :
       (trace[s].kind = "POST /call" /\ trace[s].req.path = "greet"
          /\ trace[s].req.body.k = "array") =>
         /\ trace[s].status = 200
         /\ trace[s].resp =
              ResultBody(Greeting(Arg(trace[s].req.body.arr, 1),
                                  Lookup(trace[s].pre, "message")))

\* a POST /state naming the method greet was answered 200 and wrote nothing
C30_Witness ==
  \E s \in Procs :
    /\ trace[s].kind = "POST /state" /\ trace[s].status = 200
    /\ trace[s].arg = ("greet" :> Str("x"))
    /\ trace[s].writes = {} /\ trace[s].same
    /\ "greet" \notin DOMAIN inst[s]

\* greet answered by a server whose previous request was a state write
C30_CalledAfterWrite ==
  \E s \in Procs :
    /\ trace[s].kind = "POST /call" /\ trace[s].req.path = "greet"
    /\ trace[s].status = 200
    /\ trace[s].prev.path = "state" /\ trace[s].prev.status = 200

\* C31: every field a POST /state assigns is a field GET /state shows: the
\* keys assigned by an answered POST /state are keys of the snapshot, none of
\* them one of the internal names getState leaves out.
C31_WritesAreVisible ==
  \A s \in Procs :
    (trace[s].kind = "POST /state" /\ trace[s].status = 200) =>
      /\ trace[s].writes \cap exclude = {}
      /\ trace[s].writes \subseteq DOMAIN trace[s].state

\* the internal field systemMessage of a serving instance holds the value a
\* POST /state gave it, and no snapshot shows it
C31_InternalFieldWritten ==
  \E s \in Procs :
    /\ trace[s].kind = "POST /state" /\ trace[s].status = 200
    /\ trace[s].arg = ("systemMessage" :> Str("x"))
    /\ inst[s]["systemMessage"] = Str("x")
    /\ "systemMessage" \notin DOMAIN trace[s].state

\* the status codes the request handler passes to writeHead
StatusCodes == {200, 400, 404, 405, 500}

\* C32: every request a listening server has handled, whatever its verb, path
\* and body, got a response with one status code: also a body that does not
\* parse, an operation that throws and an operation whose result
\* JSON.stringify cannot serialize.
C32_OneResponse ==
  \A s \in Procs :
    trace[s].kind \in {"POST /state", "POST /call", "other"} =>
      /\ trace[s].status \in StatusCodes
      /\ trace[s].resp # EmptyBody

\* the same for the requests whose operation returns a serializable value
C32_OneResponseSerializable ==
  \A s \in Procs :
    (trace[s].kind \in {"POST /state", "POST /call", "other"}
       /\ trace[s].req.path # "cyclicMethod") =>
      /\ trace[s].status \in StatusCodes
      /\ trace[s].resp # EmptyBody

\* answered requests: an unparseable body to an operation, and an operation
\* that threw, on one server
C32_ErrorsAnswered ==
  \E s \in Procs :
    /\ trace[s].kind = "POST /call" /\ trace[s].req.path = "failingMethod"
    /\ trace[s].req.body.k = "array" /\ trace[s].status = 500
    /\ trace[s].prev.status = 500 /\ trace[s].prev.path = "greet"

C33_LocalApplied ==
  \E i \in Procs :
    /\ result[i].kind = "set" /\ result[i].route = "local"
    /\ result[i].diff = ("systemMessage" :> Str("x"))
    /\ inst[i]["systemMessage"] = Str("x")
    /\ result[i].state = getState(inst[i])

\* C34: a POST /state whose body is JSON but not an object (null, a number, a
\* string, an array) assigns nothing: the instance has the fields it had, with
\* the values they had.
C34_NonObjectBodyNoChange ==
  \A s \in Procs :
    (trace[s].kind = "POST /state"
       /\ trace[s].req.body.k \in {"scalar", "string", "array"}) =>
      /\ trace[s].writes = {}
      /\ trace[s].same
      /\ DOMAIN trace[s].state = DOMAIN trace[s].pre

\* the same for the bodies that have no index to enumerate: null, a number,
\* an empty array
C34_NothingToEnumerate ==
  \A s \in Procs :
    (trace[s].kind = "POST /state"
       /\ trace[s].req.body.k \in {"scalar", "string", "array"}
       /\ (trace[s].req.body.k = "scalar" \/ trace[s].req.body.arr = <<>>)) =>
      /\ trace[s].status = 200
      /\ trace[s].writes = {}
      /\ trace[s].same

\* the body null was answered 200 by a server that it left as it was
C34_NullAnswered ==
  \E s \in Procs :
    /\ trace[s].kind = "POST /state" /\ trace[s].req.body = JsonScalar(Null)
    /\ trace[s].status = 200 /\ trace[s].same

\* the body "Hi" left the fields "0" and "1" on the serving instance
C34_IndexFieldsCreated ==
  \E s \in Procs :
    /\ trace[s].kind = "POST /state" /\ trace[s].req.body.k = "string"
    /\ trace[s].status = 200
    /\ {"0", "1"} \subseteq DOMAIN inst[s]
    /\ inst[s]["0"] = Str("H") /\ inst[s]["1"] = Str("i")

\* C35: while the server of the variant runs, once no write of the file is in
\* flight the file holds the state of the instance as save writes it.
C35_FileIsCurrentState ==
  (app.pc = "serving" /\ app.saves = {}) => app.file = save(app.obj)

\* two writes were in flight and both have completed
C35_TwoSavesCompleted ==
  /\ app.pc = "serving" /\ app.saves = {}
  /\ app.file.present
  /\ Lookup(app.obj, "message") = Str("Hi")
  /\ app.file = save(app.obj)

\* C36: after n setSystemMessage calls on an instance, systemLog holds the
\* messages of the last min(n, 100) calls in the order of the calls, and
\* systemMessage is the message of the last call (null when n = 0).
C36_SystemLogWindow ==
  \A i \in Procs :
    LET log == inst[i]["systemLog"].s
        n == Logged(i)
    IN  /\ Len(log) <= 100
        /\ Len(log) = IF n < 100 THEN n ELSE 100
        /\ \A k \in 1..Len(log) : log[k] = ToString(n - Len(log) + k)
        /\ inst[i]["systemMessage"] = IF n = 0 THEN Null ELSE Str(ToString(n))

\* the 102nd call: the messages 3 to 102 are kept, 1 and 2 were dropped
C36_Witness ==
  \E i \in Procs :
    /\ Len(inst[i]["systemLog"].s) = 100
    /\ inst[i]["systemLog"].s[1] = "3"
    /\ inst[i]["systemLog"].s[100] = "102"
    /\ inst[i]["systemMessage"] = Str("102")

====
